---- MODULE Spec2Model ----
(***************************************************************************)
(* Model of the funding program (src/funding-program): one funding account *)
(* at the program-derived address of (id 0, market 0, Drift), the five     *)
(* instructions of processor.rs acting on it, and the ring of data points  *)
(* of state.rs.                                                            *)
(*                                                                         *)
(* Each instruction handler is an operator from the chain state and the    *)
(* instruction's inputs to a result [err, path, st]; the action of the     *)
(* handler installs st when err = "Ok" and leaves the chain untouched      *)
(* otherwise (the runtime rolls a failed instruction back).                *)
(*                                                                         *)
(* Integer widths: the program computes in i64/u64/u32.  The model keeps   *)
(* the two's-complement behaviour with I64Bits-bit words in place of 64    *)
(* (U32Bits in place of 32), so that casts and wrap-arounds are reachable  *)
(* with small numbers.  Whether an overflowing `+`, `-` or `*` traps or     *)
(* wraps is the build's choice (overflow checks); every arithmetic step    *)
(* takes the choice as `checks`, and the actions draw it freely.           *)
(***************************************************************************)
EXTENDS Integers, Sequences, FiniteSets, TLC

\* ------------------------------------------------------------------ bounds

\* width of the model's i64/u64 words
I64Bits == 6
\* the clock runs from 0 to MaxTime
MaxTime == 3
\* lamports per byte of the rent-exempt minimum
RentPerByte == 1
\* lamports the first wallet starts with, above the rent of the largest record
SpareLamports == 4
\* the largest data_points_count an instruction asks for
MaxCount == 3

\* ------------------------------------------------------- integer arithmetic

RECURSIVE Pow2(_)
Pow2(n) == IF n = 0 THEN 1 ELSE 2 * Pow2(n - 1)

U32Bits == I64Bits - 3

I64Max == Pow2(I64Bits - 1) - 1
I64Min == -Pow2(I64Bits - 1)
U64Max == Pow2(I64Bits) - 1
U32Max == Pow2(U32Bits) - 1

InI64(x) == I64Min <= x /\ x <= I64Max

\* two's-complement reduction of an integer to i64
WrapI64(x) == ((x - I64Min) % Pow2(I64Bits)) + I64Min

\* `u as i64`
AsI64(u) == WrapI64(u)

\* Rust's `/` on i64: truncates toward zero (the divisor is never 0 here)
TruncDiv(a, b) ==
    IF (a >= 0) = (b > 0) THEN (IF a >= 0 THEN a ELSE -a) \div (IF b > 0 THEN b ELSE -b)
    ELSE -((IF a >= 0 THEN a ELSE -a) \div (IF b > 0 THEN b ELSE -b))

\* An i64 `+`, `-` or `*` whose mathematical result is x: in range it is x; out
\* of range the build either traps (overflow checks on) or wraps.
I64Arith(x, checks) ==
    IF InI64(x) THEN [ok |-> TRUE, v |-> x]
    ELSE IF checks THEN [ok |-> FALSE, v |-> 0]
    ELSE [ok |-> TRUE, v |-> WrapI64(x)]

\* `(period_length + 1) as i64`, the sum taken in u32
PeriodPlusOne(period_length, checks) ==
    IF period_length + 1 <= U32Max THEN [ok |-> TRUE, v |-> period_length + 1]
    ELSE IF checks THEN [ok |-> FALSE, v |-> 0]
    ELSE [ok |-> TRUE, v |-> (period_length + 1) % Pow2(U32Bits)]

\* ------------------------------------------------------------ the accounts

Keys == {"k1", "k2"}
DefaultPubkey == "default"
ProgramId == "funding_program"
SystemProgram == "system_program"

Exchanges == {"Drift", "Mango"}

discriminator(exchange) == IF exchange = "Drift" THEN 0 ELSE 1

FIXED_SIZE == 88
DATA_POINT_SIZE == 16

\* the size with a slot counted as its nine serialized bytes
size_of_serialized_slots(data_points_count) == FIXED_SIZE + 9 * data_points_count

size(data_points_count) == FIXED_SIZE + DATA_POINT_SIZE * data_points_count

\* find_program_address over the seeds: an injective address, and its bump
PdaBump == 255
pda(id, market_index, exchange) ==
    [address |-> <<"funding", id, market_index, discriminator(exchange)>>,
     bump |-> PdaBump]

\* the address of the one funding account the model follows
FundingKey == pda(0, 0, "Drift").address
\* the name its lamports are kept under
FundingAccount == "funding_account"

\* Option<i64>
None == [tag |-> 0, val |-> 0]
Some(v) == [tag |-> 1, val |-> v]
is_none(o) == o.tag = 0
is_some(o) == o.tag = 1

\* a data-point slot of all-zero bytes: it deserializes to None
ZeroSlot == None
ZeroSlots(n) == [i \in 1..n |-> ZeroSlot]

\* the header deserialized from all-zero bytes
ZeroConfig ==
    [update_frequency_secs |-> 0, staleness_threshold_secs |-> 0,
     period_length |-> 0, data_points_count |-> 0]
ZeroFixed ==
    [bump |-> 0, id |-> 0, exchange |-> "Drift", market_index |-> 0,
     authority |-> DefaultPubkey, last_updated_ts |-> 0, config |-> ZeroConfig,
     funding_ema |-> None]

\* Rent::minimum_balance
RentMinimumBalance(bytes) == bytes * RentPerByte

\* every lamport there is: the first wallet's start balance
TotalLamports == RentMinimumBalance(size(MaxCount)) + SpareLamports

\* A u64 `a - b` on lamports: below zero the build either traps or wraps to a
\* number near 2^64, which is more than all the lamports there are.
U64Sub(a, b, checks) ==
    IF a >= b THEN [ok |-> TRUE, v |-> a - b]
    ELSE IF checks THEN [ok |-> FALSE, v |-> 0]
    ELSE [ok |-> TRUE, v |-> TotalLamports + 1]

\* ------------------------------------------------- state.rs: the data points

\* The loader is [fixed, dynamic]: the deserialized header and the data-point
\* region, one Option<i64> per 16-byte slot: what the slot deserializes to.
\* Borsh writes None as a tag byte of 0 and leaves the eight bytes behind it as
\* they were; no code reads them behind a tag of 0, so the state does not keep
\* them.  Slot i of the code is dynamic[i + 1].

write_data_point(dynamic, data_point, i) == [dynamic EXCEPT ![i + 1] = data_point]

load_data_point(dynamic, i) == dynamic[i + 1]

\* the loop of update_ema from index i on; [ok, v], ok = FALSE on a panic
RECURSIVE ema_loop(_, _, _, _, _, _)
ema_loop(dynamic, k, n, i, ema, checks) ==
    IF i >= n THEN [ok |-> TRUE, v |-> ema]
    ELSE
        LET data_point == load_data_point(dynamic, i) IN
        IF is_none(data_point) THEN [ok |-> FALSE, v |-> 0]
        ELSE
            LET diff == I64Arith(data_point.val - ema, checks) IN
            IF ~diff.ok THEN [ok |-> FALSE, v |-> 0]
            ELSE
                LET twice == I64Arith(diff.v * 2, checks) IN
                IF ~twice.ok \/ k = 0 THEN [ok |-> FALSE, v |-> 0]
                ELSE
                    LET next == I64Arith(TruncDiv(twice.v, k) + ema, checks) IN
                    IF ~next.ok THEN [ok |-> FALSE, v |-> 0]
                    ELSE ema_loop(dynamic, k, n, i + 1, next.v, checks)

\* [ok, fixed]: funding_ema recomputed from the ring
update_ema(fixed, dynamic, checks) ==
    LET first == load_data_point(dynamic, 0)
        k == PeriodPlusOne(fixed.config.period_length, checks)
        n == fixed.config.data_points_count
    IN  IF is_none(first) \/ ~k.ok THEN [ok |-> FALSE, fixed |-> fixed]
        ELSE
            LET ema == ema_loop(dynamic, k.v, n, 1, first.val, checks) IN
            IF ~ema.ok THEN [ok |-> FALSE, fixed |-> fixed]
            ELSE [ok |-> TRUE, fixed |-> [fixed EXCEPT !.funding_ema = Some(ema.v)]]

\* the search for a free slot taking the last one that loads as None
first_none_from_the_end(dynamic, data_points_count) ==
    IF \E i \in 0..(data_points_count - 1) : is_none(load_data_point(dynamic, i))
    THEN CHOOSE i \in 0..(data_points_count - 1) :
            /\ is_none(load_data_point(dynamic, i))
            /\ \A j \in (i + 1)..(data_points_count - 1) :
                  is_some(load_data_point(dynamic, j))
    ELSE data_points_count

\* index of the first slot that loads as None; data_points_count if there is none
first_none(dynamic, data_points_count) ==
    IF \E i \in 0..(data_points_count - 1) : is_none(load_data_point(dynamic, i))
    THEN CHOOSE i \in 0..(data_points_count - 1) :
            /\ is_none(load_data_point(dynamic, i))
            /\ \A j \in 0..(i - 1) : is_some(load_data_point(dynamic, j))
    ELSE data_points_count

\* sol_memmove of (data_points_count - 1) slots from slot 1 to slot 0
memmove_left(dynamic, data_points_count) ==
    [i \in 1..Len(dynamic) |->
        IF i < data_points_count THEN dynamic[i + 1] ELSE dynamic[i]]

\* update_data_points taking the value appended for the average
update_data_points_averaging_on_append(fixed, dynamic, new_data_point, checks) ==
    LET data_points_count == fixed.config.data_points_count
        i == first_none(dynamic, data_points_count)
        written == write_data_point(memmove_left(dynamic, data_points_count),
                                    Some(new_data_point), data_points_count - 1)
        ema == update_ema(fixed, written, checks)
    IN  IF i < data_points_count
        THEN [ok |-> TRUE, path |-> "append",
              fixed |-> [fixed EXCEPT !.funding_ema = Some(new_data_point)],
              dynamic |-> write_data_point(dynamic, Some(new_data_point), i)]
        ELSE [ok |-> ema.ok, path |-> "shift", fixed |-> ema.fixed,
              dynamic |-> written]

\* [ok, path, fixed, dynamic]
update_data_points(fixed, dynamic, new_data_point, checks) ==
    LET data_points_count == fixed.config.data_points_count
        i == first_none(dynamic, data_points_count)
    IN  IF i < data_points_count
        THEN [ok |-> TRUE, path |-> "append", fixed |-> fixed,
              dynamic |-> write_data_point(dynamic, Some(new_data_point), i)]
        ELSE
            LET moved == memmove_left(dynamic, data_points_count)
                written == write_data_point(moved, Some(new_data_point),
                                            data_points_count - 1)
                ema == update_ema(fixed, written, checks)
            IN  [ok |-> ema.ok, path |-> "shift", fixed |-> ema.fixed,
                 dynamic |-> written]

\* None written to the slots from..(to - 1)
RECURSIVE write_none_range(_, _, _)
write_none_range(dynamic, from, to) ==
    IF from >= to THEN dynamic
    ELSE write_none_range(write_data_point(dynamic, None, from), from + 1, to)

\* the reset clearing from slot 2 on
reset_from_the_third(fixed, dynamic, data_point) ==
    [fixed |-> [fixed EXCEPT !.funding_ema = None],
     dynamic |-> write_none_range(write_data_point(dynamic, Some(data_point), 0),
                                  2, fixed.config.data_points_count)]

\* [fixed, dynamic]
reset_data_points_and_write_first(fixed, dynamic, data_point) ==
    [fixed |-> [fixed EXCEPT !.funding_ema = None],
     dynamic |-> write_none_range(write_data_point(dynamic, Some(data_point), 0),
                                  1, fixed.config.data_points_count)]

\* --------------------------------------------------- the chain and its calls

\* The chain state st is [owner, data_len, fixed, dynamic, lamports]: the
\* funding account's owner, data length, header and data-point region, and the
\* lamports of the funding account and of every wallet.

\* number of whole data-point slots behind the header in data_len bytes
dynamic_slots(data_len) ==
    IF data_len <= FIXED_SIZE THEN 0 ELSE (data_len - FIXED_SIZE) \div DATA_POINT_SIZE

\* try_load without the comparison of the authority
try_load_any_authority(st, funding_writable, authority) ==
    IF ~funding_writable THEN "AccountsNeedToBeWritable"
    ELSE IF st.owner # ProgramId THEN "InvalidAccount"
    ELSE IF st.data_len < FIXED_SIZE THEN "AccountDataTooSmall"
    ELSE IF st.data_len - FIXED_SIZE
                # DATA_POINT_SIZE * st.fixed.config.data_points_count
        THEN "InvalidAccountData"
    ELSE IF \/ FundingKey # pda(st.fixed.id, st.fixed.market_index,
                                st.fixed.exchange).address
            \/ st.fixed.bump # pda(st.fixed.id, st.fixed.market_index,
                                   st.fixed.exchange).bump
        THEN "InvalidAccountData"
    ELSE "Ok"

\* the error of try_load, "Ok" when the account loads
try_load(st, funding_writable, authority) ==
    IF ~funding_writable THEN "AccountsNeedToBeWritable"
    ELSE IF st.owner # ProgramId THEN "InvalidAccount"
    ELSE IF st.data_len < FIXED_SIZE THEN "AccountDataTooSmall"
    ELSE IF st.data_len - FIXED_SIZE
                # DATA_POINT_SIZE * st.fixed.config.data_points_count
        THEN "InvalidAccountData"
    ELSE IF \/ FundingKey # pda(st.fixed.id, st.fixed.market_index,
                                st.fixed.exchange).address
            \/ st.fixed.bump # pda(st.fixed.id, st.fixed.market_index,
                                   st.fixed.exchange).bump
        THEN "InvalidAccountData"
    ELSE IF st.fixed.authority # authority THEN "MissingOrInvalidAuthority"
    ELSE "Ok"

\* the error of load_signer_ai
load_signer_ai(m) == IF ~m.is_signer THEN "MissingOrInvalidAuthority" ELSE "Ok"

\* save: the header written back over the first FIXED_SIZE bytes
save(st, fixed) == [st EXCEPT !.fixed = fixed]

\* AccountInfo::realloc(new_size, false): bytes past the old length read as zero
realloc(st, new_size) ==
    LET n == dynamic_slots(new_size) IN
    [st EXCEPT
        !.data_len = new_size,
        !.dynamic = [i \in 1..n |->
                        IF i <= Len(st.dynamic) THEN st.dynamic[i] ELSE ZeroSlot],
        !.fixed = IF new_size < FIXED_SIZE THEN ZeroFixed ELSE st.fixed]

\* create_account allocating over whatever the address holds
create_account_over_a_record(st, m, lamports, space) ==
    IF ~m.signer_writable
    THEN [err |-> "PrivilegeEscalation", st |-> st]
    ELSE IF st.lamports[m.signer] < lamports
    THEN [err |-> "SystemResultWithNegativeLamports", st |-> st]
    ELSE [err |-> "Ok",
          st |-> [owner |-> ProgramId,
                  data_len |-> space,
                  fixed |-> ZeroFixed,
                  dynamic |-> ZeroSlots(dynamic_slots(space)),
                  lamports |-> [st.lamports EXCEPT
                                   ![m.signer] = @ - lamports,
                                   ![FundingAccount] = @ + lamports]]]

\* system_instruction::create_account, signed for the funding address:
\* [err, st]
create_account(st, m, lamports, space) ==
    IF st.lamports[FundingAccount] > 0 \/ st.data_len > 0 \/ st.owner # SystemProgram
    THEN [err |-> "SystemAccountAlreadyInUse", st |-> st]
    ELSE IF ~m.signer_writable
    THEN [err |-> "PrivilegeEscalation", st |-> st]
    ELSE IF st.lamports[m.signer] < lamports
    THEN [err |-> "SystemResultWithNegativeLamports", st |-> st]
    ELSE [err |-> "Ok",
          st |-> [owner |-> ProgramId,
                  data_len |-> space,
                  fixed |-> ZeroFixed,
                  dynamic |-> ZeroSlots(dynamic_slots(space)),
                  lamports |-> [st.lamports EXCEPT
                                   ![m.signer] = @ - lamports,
                                   ![FundingAccount] = @ + lamports]]]

\* system_instruction::transfer from the signer to the funding account:
\* [err, st]
transfer(st, m, lamports) ==
    IF ~m.signer_writable
    THEN [err |-> "PrivilegeEscalation", st |-> st]
    ELSE IF st.lamports[m.signer] < lamports
    THEN [err |-> "SystemResultWithNegativeLamports", st |-> st]
    ELSE [err |-> "Ok",
          st |-> [st EXCEPT !.lamports = [@ EXCEPT ![m.signer] = @ - lamports,
                                                   ![FundingAccount] = @ + lamports]]]

\* a handler's result
Failed(err, st) == [err |-> err, path |-> "-", st |-> st]
Done(path, st) == [err |-> "Ok", path |-> path, st |-> st]

\* the credit dropped: the balance stays as it was
checked_add_dropping(a, b) == [ok |-> TRUE, v |-> a]

\* u64::checked_add on lamports: None when the sum passes u64::MAX, which only
\* a wrapped operand can bring about
checked_add(a, b) ==
    IF a + b > TotalLamports THEN [ok |-> FALSE, v |-> 0]
    ELSE [ok |-> TRUE, v |-> a + b]

\* ------------------------------------------------ processor.rs: the handlers

\* initialize_funding_account letting a single-slot ring through
initialize_rejects_below_one(a) ==
    \/ a.data_points_count < 1
    \/ a.update_frequency_secs >= a.staleness_threshold_secs
    \/ a.period_length = 0

\* the argument checks of initialize_funding_account
initialize_rejects(a) ==
    \/ a.data_points_count <= 1
    \/ a.update_frequency_secs >= a.staleness_threshold_secs
    \/ a.period_length = 0

\* initialize_funding_account leaving the authority unset
initialized_fixed_without_authority(loaded, m, a) ==
    [loaded EXCEPT
        !.bump = pda(a.id, a.market_index, a.exchange).bump,
        !.id = a.id,
        !.market_index = a.market_index,
        !.exchange = a.exchange,
        !.config = [update_frequency_secs |-> a.update_frequency_secs,
                    staleness_threshold_secs |-> a.staleness_threshold_secs,
                    period_length |-> a.period_length,
                    data_points_count |-> a.data_points_count]]

\* the header fields initialize_funding_account assigns
initialized_fixed(loaded, m, a) ==
    [loaded EXCEPT
        !.bump = pda(a.id, a.market_index, a.exchange).bump,
        !.id = a.id,
        !.authority = m.signer,
        !.market_index = a.market_index,
        !.exchange = a.exchange,
        !.config = [update_frequency_secs |-> a.update_frequency_secs,
                    staleness_threshold_secs |-> a.staleness_threshold_secs,
                    period_length |-> a.period_length,
                    data_points_count |-> a.data_points_count]]

\* the cadence check of configure_funding_account
configure_rejects_cadence(new_update_freq, new_staleness_threshold) ==
    new_update_freq >= new_staleness_threshold

\* the data-point region left as the reallocation cut it
zero_init_region_never(dynamic, zero_init) == dynamic

\* the data-point region zeroed after every reallocation
zero_init_region_always(dynamic, zero_init) == [i \in 1..Len(dynamic) |-> ZeroSlot]

\* the data-point region after the reallocation: zeroed when zero_init
zero_init_region(dynamic, zero_init) ==
    IF zero_init THEN [i \in 1..Len(dynamic) |-> ZeroSlot] ELSE dynamic

\* a record counted as stale a second later
is_stale_a_second_later(now_ts, stale_ts) == now_ts > stale_ts + 1

\* `now_ts > stale_ts`
is_stale(now_ts, stale_ts) == now_ts > stale_ts

\* `now_ts < update_ts`
is_too_soon(now_ts, update_ts) == now_ts < update_ts

\* m is the accounts passed: [signer, is_signer, signer_writable,
\* funding_writable]; the second account is always the funding account.

\* a: [id, exchange, market_index, update_frequency_secs,
\*     staleness_threshold_secs, period_length, data_points_count]
initialize_funding_account(st, m, a) ==
    IF load_signer_ai(m) # "Ok" THEN Failed(load_signer_ai(m), st)
    ELSE IF ~m.funding_writable THEN Failed("AccountsNeedToBeWritable", st)
    ELSE IF FundingKey # pda(a.id, a.market_index, a.exchange).address
        THEN Failed("InvalidAccount", st)
    ELSE IF initialize_rejects(a) THEN Failed("InvalidInstructionData", st)
    ELSE
        LET bytes == size(a.data_points_count)
            lamports == RentMinimumBalance(bytes)
            created == create_account(st, m, lamports, bytes)
        IN  IF created.err # "Ok" THEN Failed(created.err, st)
            ELSE
                Done("created",
                     save(created.st, initialized_fixed(created.st.fixed, m, a)))

\* Option::unwrap_or
unwrap_or(opt, default) == IF is_none(opt) THEN default ELSE opt.val

\* the Some(new_count) arm of configure_funding_account; config is the
\* configuration it builds, new_count in it
configure_resize(st, m, config, checks) ==
    IF config.data_points_count <= 1 THEN Failed("InvalidInstructionData", st)
    ELSE
        LET new_count == config.data_points_count
            prev_count == st.fixed.config.data_points_count
            new_size == size(new_count)
            new_lamports == RentMinimumBalance(new_size)
            funding_lamports == st.lamports[FundingAccount]
        IN  IF new_count < prev_count
            THEN
                LET new_fixed == [st.fixed EXCEPT !.funding_ema = None,
                                                  !.config = config,
                                                  !.last_updated_ts = 0]
                    remaining_lamports ==
                        U64Sub(funding_lamports, new_lamports, checks)
                    credited == checked_add(st.lamports[m.signer],
                                            remaining_lamports.v)
                IN  IF ~remaining_lamports.ok THEN Failed("Panic", st)
                    ELSE IF remaining_lamports.v > 0 /\ ~m.signer_writable
                    THEN Failed("AccountsNeedToBeWritable", st)
                    ELSE IF remaining_lamports.v > 0 /\ ~credited.ok
                    THEN Failed("LamportsOverflow", st)
                    ELSE
                        LET paid == IF remaining_lamports.v > 0
                                    THEN [st EXCEPT !.lamports =
                                            [@ EXCEPT
                                                ![m.signer] = credited.v,
                                                ![FundingAccount] =
                                                    @ - remaining_lamports.v]]
                                    ELSE st
                            resized == realloc(paid, new_size)
                        IN  Done("shrink",
                                 save([resized EXCEPT !.dynamic =
                                          zero_init_region(resized.dynamic, TRUE)],
                                      new_fixed))
            ELSE
                LET new_fixed == [st.fixed EXCEPT !.funding_ema = None,
                                                  !.config = config]
                    additional_lamports ==
                        U64Sub(new_lamports, funding_lamports, checks)
                IN  IF ~additional_lamports.ok THEN Failed("Panic", st)
                    ELSE IF additional_lamports.v > 0 /\ ~m.signer_writable
                    THEN Failed("AccountsNeedToBeWritable", st)
                    ELSE
                        LET paid == IF additional_lamports.v > 0
                                    THEN transfer(st, m, additional_lamports.v)
                                    ELSE [err |-> "Ok", st |-> st]
                            resized == realloc(paid.st, new_size)
                        IN  IF paid.err # "Ok" THEN Failed(paid.err, st)
                            ELSE Done(IF new_count = prev_count THEN "same" ELSE "grow",
                                      save([resized EXCEPT !.dynamic =
                                               zero_init_region(resized.dynamic, FALSE)],
                                           new_fixed))

\* the None arm with the average dropped, as the Some arm drops it
configure_fields_clearing_ema(fixed, update_freq, staleness_threshold, period_length) ==
    [fixed EXCEPT !.config.update_frequency_secs = update_freq,
                  !.config.staleness_threshold_secs = staleness_threshold,
                  !.config.period_length = period_length,
                  !.funding_ema = None]

\* the None arm of configure_funding_account: the three assignments to config
configure_fields(fixed, update_freq, staleness_threshold, period_length) ==
    [fixed EXCEPT !.config.update_frequency_secs = update_freq,
                  !.config.staleness_threshold_secs = staleness_threshold,
                  !.config.period_length = period_length]

\* c: [update_frequency_secs, staleness_threshold_secs, period_length,
\*     data_points_count], each an Option
configure_funding_account(st, m, c, checks) ==
    IF load_signer_ai(m) # "Ok" THEN Failed(load_signer_ai(m), st)
    ELSE IF try_load(st, m.funding_writable, m.signer) # "Ok"
        THEN Failed(try_load(st, m.funding_writable, m.signer), st)
    ELSE
        LET config == st.fixed.config
            new_update_freq ==
                unwrap_or(c.update_frequency_secs, config.update_frequency_secs)
            new_staleness_threshold ==
                unwrap_or(c.staleness_threshold_secs, config.staleness_threshold_secs)
        IN  IF configure_rejects_cadence(new_update_freq, new_staleness_threshold)
            THEN Failed("InvalidInstructionData", st)
            ELSE IF c.period_length = Some(0) THEN Failed("InvalidInstructionData", st)
            ELSE
                LET new_period_length ==
                        unwrap_or(c.period_length, config.period_length)
                IN  IF is_none(c.data_points_count)
                    THEN Done("fields",
                              save(st, configure_fields(
                                           st.fixed, new_update_freq,
                                           new_staleness_threshold,
                                           new_period_length)))
                    ELSE configure_resize(
                             st, m,
                             [update_frequency_secs |-> new_update_freq,
                              staleness_threshold_secs |-> new_staleness_threshold,
                              period_length |-> new_period_length,
                              data_points_count |-> c.data_points_count.val],
                             checks)

configure_funding_account_authority(st, m, authority) ==
    IF load_signer_ai(m) # "Ok" THEN Failed(load_signer_ai(m), st)
    ELSE IF try_load(st, m.funding_writable, m.signer) # "Ok"
        THEN Failed(try_load(st, m.funding_writable, m.signer), st)
    ELSE Done("authority", save(st, [st.fixed EXCEPT !.authority = authority]))

update_funding(st, m, data_point, now_ts, checks) ==
    IF load_signer_ai(m) # "Ok" THEN Failed(load_signer_ai(m), st)
    ELSE IF try_load(st, m.funding_writable, m.signer) # "Ok"
        THEN Failed(try_load(st, m.funding_writable, m.signer), st)
    ELSE
        LET stale_ts ==
                I64Arith(st.fixed.last_updated_ts
                            + AsI64(st.fixed.config.staleness_threshold_secs), checks)
        IN  IF ~stale_ts.ok THEN Failed("Panic", st)
            ELSE IF is_stale(now_ts, stale_ts.v)
            THEN
                LET reset == reset_data_points_and_write_first(
                                 st.fixed, st.dynamic, data_point)
                IN  Done("reset",
                         save([st EXCEPT !.dynamic = reset.dynamic],
                              [reset.fixed EXCEPT !.last_updated_ts = now_ts]))
            ELSE
                LET update_ts ==
                        I64Arith(st.fixed.last_updated_ts
                                    + AsI64(st.fixed.config.update_frequency_secs),
                                 checks)
                IN  IF ~update_ts.ok THEN Failed("Panic", st)
                    ELSE IF is_too_soon(now_ts, update_ts.v)
                        THEN Failed("UpdateTooSoon", st)
                    ELSE
                        LET updated == update_data_points(
                                           st.fixed, st.dynamic, data_point, checks)
                        IN  IF ~updated.ok THEN Failed("Panic", st)
                            ELSE Done(updated.path,
                                      save([st EXCEPT !.dynamic = updated.dynamic],
                                           [updated.fixed EXCEPT
                                               !.last_updated_ts = now_ts]))

\* close_funding_account leaving the emptied account with the program
close_funding_account_without_assign(st, m, receiver, receiver_writable) ==
    IF load_signer_ai(m) # "Ok" THEN Failed(load_signer_ai(m), st)
    ELSE IF try_load(st, m.funding_writable, m.signer) # "Ok"
        THEN Failed(try_load(st, m.funding_writable, m.signer), st)
    ELSE IF ~receiver_writable THEN Failed("AccountsNeedToBeWritable", st)
    ELSE IF receiver = m.signer /\ ~m.signer_writable
        THEN Failed("AccountsNeedToBeWritable", st)
    ELSE
        LET funding_lamports == st.lamports[FundingAccount]
            credited == checked_add(st.lamports[receiver], funding_lamports)
        IN  IF ~credited.ok THEN Failed("LamportsOverflow", st)
            ELSE Done("closed",
                      realloc([st EXCEPT !.lamports =
                                  [@ EXCEPT ![receiver] = credited.v,
                                            ![FundingAccount] = 0]], 0))

\* receiver: the third account's key and its writable flag
close_funding_account(st, m, receiver, receiver_writable) ==
    IF load_signer_ai(m) # "Ok" THEN Failed(load_signer_ai(m), st)
    ELSE IF try_load(st, m.funding_writable, m.signer) # "Ok"
        THEN Failed(try_load(st, m.funding_writable, m.signer), st)
    ELSE IF ~receiver_writable THEN Failed("AccountsNeedToBeWritable", st)
    ELSE IF receiver = m.signer /\ ~m.signer_writable
        THEN Failed("AccountsNeedToBeWritable", st)
    ELSE
        LET funding_lamports == st.lamports[FundingAccount]
            credited == checked_add(st.lamports[receiver], funding_lamports)
        IN  IF ~credited.ok THEN Failed("LamportsOverflow", st)
            ELSE
                LET drained == [st EXCEPT !.lamports =
                                   [@ EXCEPT ![receiver] = credited.v,
                                             ![FundingAccount] = 0]]
                IN  Done("closed", [realloc(drained, 0) EXCEPT !.owner = SystemProgram])

\* ---------------------------------------------------------------- the state

VARIABLES
    owner,            \* owner of the funding account
    data_len,         \* its data length in bytes
    fixed,            \* its header (FundingAccountFixed), as deserialized
    dynamic,          \* its data-point region, one Option<i64> per slot
    lamports,         \* lamports of the funding account and of each wallet
    now,              \* Clock::unix_timestamp
    \* the relayer (src/bot/src/services/funding_relayer.rs)
    cache,            \* Vec<MarketFundingCache> behind the mutex
    instant,          \* Instant::now(), in seconds
    snapshot_task,    \* the snapshot task: "running", "ended" or "panicked"
    relayer_task,     \* where the publish task is, or "ended" or "panicked"
    markets_with_instructions,  \* the instructions collected in this cycle
    chunk,            \* chunks of this cycle begun so far
    tx,               \* the signed transaction of the current chunk
    retries,          \* `retries` of the current chunk
    built,            \* the transactions built and signed in this cycle
    sent,             \* the submissions of this cycle and their results
    inserted,         \* per market, the latest rates insert_funding_rate took
    program_result,   \* what the task handle that completed first yields
    exit,             \* what start returns, "Running" until then
    force_send,       \* a call of force_send_transaction: its locals and position
    call,             \* a call of a venue's funding computation: inputs and result
    \* the websocket manager (src/bot/src/utils/websocket_client.rs)
    connection_status,      \* WebsocketClient::connection_status
    manager_task,           \* where the manager task is, and what it returned
    request_id,             \* `request_id` of the connection
    pending_subscriptions,  \* request id -> method and the caller waiting
    pending_reconnect,      \* a reconnect() call waits for the next connection
    active_subscriptions,   \* subscription id -> method and the caller's receiver
    subscribers,            \* the callers of subscribe(): where each is
    socket,                 \* the requests sent on the connection, in order
    server,                 \* the RPC node's side of the connection
    connections             \* connections established so far

program_vars == <<owner, data_len, fixed, dynamic, lamports, now>>

relayer_vars ==
    <<cache, instant, snapshot_task, relayer_task, markets_with_instructions,
      chunk, tx, retries, built, sent, inserted, program_result, exit>>

\* a task handle: not complete, Ok(res) with the task's own result, or
\* Err(JoinError) when the task panicked
Pending == [handle |-> "Pending", res |-> "Pending"]
Returned(res) == [handle |-> "Ok", res |-> res]
JoinError == [handle |-> "Err", res |-> "JoinError"]

library_vars == <<force_send, call>>

websocket_vars ==
    <<connection_status, manager_task, request_id, pending_subscriptions,
      pending_reconnect, active_subscriptions, subscribers, socket, server,
      connections>>

vars == <<program_vars, relayer_vars, library_vars, websocket_vars>>

\* create_persisted_websocket_connection has not been called
NotSpawned ==
    /\ connection_status = "Disconnected"
    /\ manager_task = [pc |-> "NotSpawned", result |-> "Pending"]
    /\ request_id = 1
    /\ pending_subscriptions = <<>>
    /\ pending_reconnect = FALSE
    /\ active_subscriptions = <<>>
    /\ subscribers = <<>>
    /\ socket = <<>>
    /\ server = [subscriptions |-> <<>>, answered |-> {}, notified |-> 0]
    /\ connections = 0

\* no call of the bot's library functions is under way
NotCalled ==
    /\ force_send = [pc |-> "NotCalled"]
    /\ call = [fn |-> "NotCalled"]

\* the relayer before start_funding_relayer has run
NotStarted ==
    /\ cache = <<>>
    /\ instant = 0
    /\ snapshot_task = "running"
    /\ relayer_task = "collect"
    /\ markets_with_instructions = <<>>
    /\ chunk = 0
    /\ tx = <<>>
    /\ retries = 0
    /\ built = <<>>
    /\ sent = <<>>
    /\ inserted = <<>>
    /\ program_result = Pending
    /\ exit = "Running"

Chain ==
    [owner |-> owner, data_len |-> data_len, fixed |-> fixed, dynamic |-> dynamic,
     lamports |-> lamports]

\* ---------------------------------------------------------------- the inputs

Meta(k, s, sw, fw) ==
    [signer |-> k, is_signer |-> s, signer_writable |-> sw, funding_writable |-> fw]

\* the accounts as the client builds them, with the signer paying the fee
GoodMeta(k) == Meta(k, TRUE, TRUE, TRUE)
\* the wallet the record answers to; the first wallet while there is no record
Holder == IF fixed.authority \in Keys THEN fixed.authority ELSE "k1"
\* a well-formed list of accounts for each wallet, and the holder's with each
\* flag dropped in turn
Metas ==
    {GoodMeta(k) : k \in Keys}
    \cup {Meta(Holder, FALSE, TRUE, TRUE), Meta(Holder, TRUE, FALSE, TRUE),
          Meta(Holder, TRUE, TRUE, FALSE)}

\* a staleness threshold past i64::MAX
HugeStaleness == I64Max + 1

DataPoints == {-3, 2}
UpdateFrequencies == {0, 1}
StalenessThresholds == {1, 2, HugeStaleness}
DataPointsCounts == 1..MaxCount

InitializeArgs(id, exchange, market_index, uf, st, pl, dc) ==
    [id |-> id, exchange |-> exchange, market_index |-> market_index,
     update_frequency_secs |-> uf, staleness_threshold_secs |-> st,
     period_length |-> pl, data_points_count |-> dc]

\* a valid configuration with the account flags varied, and with the seeds of
\* other addresses
NominalInitializeInputs ==
    {[m |-> m, a |-> InitializeArgs(0, "Drift", 0, 1, 2, 2, 2)] : m \in Metas}
    \cup
    {[m |-> GoodMeta("k1"), a |-> InitializeArgs(id, ex, mi, 1, 2, 2, 2)] :
        id \in {0, 1}, ex \in Exchanges, mi \in {0, 1}}

\* from either wallet: every cadence and count at the funding address, and a
\* zero period
ConfiguredInitializeInputs ==
    {[m |-> GoodMeta(k), a |-> InitializeArgs(0, "Drift", 0, uf, st, 2, dc)] :
        k \in Keys, uf \in UpdateFrequencies, st \in StalenessThresholds,
        dc \in DataPointsCounts}
    \cup
    {[m |-> GoodMeta(k), a |-> InitializeArgs(0, "Drift", 0, 1, 2, 0, 2)] : k \in Keys}

\* While the funding account holds a record every Initialize ends in the same
\* error of create_account or in its own validation error: each wallet tries
\* one there, and all of them are tried on the empty address.
InitializeInputs ==
    IF owner = SystemProgram
    THEN NominalInitializeInputs \cup ConfiguredInitializeInputs
    ELSE {[m |-> GoodMeta(k), a |-> InitializeArgs(0, "Drift", 0, 1, 2, 2, 2)] :
             k \in Keys}

Options(S) == {None} \cup {Some(v) : v \in S}

ConfigureArgs(uf, st, pl, dc) ==
    [update_frequency_secs |-> uf, staleness_threshold_secs |-> st,
     period_length |-> pl, data_points_count |-> dc]

\* from the authority: every cadence, every period, and all four values at
\* once; from any list of accounts: every count
ConfigureInputs ==
    {[m |-> GoodMeta(fixed.authority), c |-> ConfigureArgs(uf, st, None, None)] :
        uf \in Options(UpdateFrequencies), st \in Options(StalenessThresholds)}
    \cup
    {[m |-> GoodMeta(fixed.authority), c |-> ConfigureArgs(None, None, Some(pl), None)] :
        pl \in {0, 2, U32Max}}
    \cup
    {[m |-> GoodMeta(fixed.authority),
      c |-> ConfigureArgs(Some(1), Some(2), Some(2), Some(dc))] :
        dc \in DataPointsCounts}
    \cup
    {[m |-> m, c |-> ConfigureArgs(None, None, None, Some(dc))] :
        m \in Metas, dc \in DataPointsCounts}

\* to either wallet from any list of accounts, and to a wallet passed read-only
CloseInputs ==
    {[m |-> m, receiver |-> k, receiver_writable |-> TRUE] : m \in Metas, k \in Keys}
    \cup
    {[m |-> GoodMeta(fixed.authority), receiver |-> k, receiver_writable |-> FALSE] :
        k \in Keys}

\* --------------------------------------------------------------- the actions

\* the funding address before create_account, and the first wallet funded
Unallocated ==
    /\ owner = SystemProgram
    /\ data_len = 0
    /\ fixed = ZeroFixed
    /\ dynamic = <<>>
    /\ lamports = [a \in Keys \cup {FundingAccount} |->
                      IF a = "k1" THEN TotalLamports ELSE 0]
    /\ now = 1

Init == Unallocated /\ NotStarted /\ NotCalled /\ NotSpawned

\* the runtime keeps a successful instruction's writes and drops a failed one's
Apply(r) ==
    /\ IF r.err = "Ok"
       THEN /\ owner' = r.st.owner
            /\ data_len' = r.st.data_len
            /\ fixed' = r.st.fixed
            /\ dynamic' = r.st.dynamic
            /\ lamports' = r.st.lamports
       ELSE UNCHANGED <<owner, data_len, fixed, dynamic, lamports>>
    /\ UNCHANGED now
    /\ UNCHANGED <<relayer_vars, library_vars, websocket_vars>>

Initialize ==
    \E i \in InitializeInputs :
        Apply(initialize_funding_account(Chain, i.m, i.a))

Configure ==
    \E i \in ConfigureInputs, checks \in BOOLEAN :
        Apply(configure_funding_account(Chain, i.m, i.c, checks))

ConfigureAuthority ==
    \E m \in Metas, authority \in Keys :
        Apply(configure_funding_account_authority(Chain, m, authority))

Update ==
    \E m \in Metas, data_point \in DataPoints, checks \in BOOLEAN :
        Apply(update_funding(Chain, m, data_point, now, checks))

Close ==
    \E i \in CloseInputs :
        Apply(close_funding_account(Chain, i.m, i.receiver, i.receiver_writable))

\* the clock advances
Tick ==
    /\ now < MaxTime
    /\ now' = now + 1
    /\ UNCHANGED <<owner, data_len, fixed, dynamic, lamports>>
    /\ UNCHANGED <<relayer_vars, library_vars, websocket_vars>>

Next == Initialize \/ Configure \/ ConfigureAuthority \/ Update \/ Close \/ Tick

Spec == Init /\ [][Next]_vars

\* ---------------------------------------------------------------- the claims

\* a funding record exists at the funding address
Live == owner = ProgramId

\* the accounts of m are well formed and signed by the record's authority
ByAuthority(m) == m = GoodMeta(fixed.authority)

\* the signer of m is the record's authority
Authorised(m) == m.is_signer /\ m.signer = fixed.authority

ValidConfig(config) ==
    /\ config.update_frequency_secs < config.staleness_threshold_secs
    /\ config.period_length > 0
    /\ config.data_points_count > 1

AllInitializeInputs == NominalInitializeInputs \cup ConfiguredInitializeInputs

\* the configuration a Configure asks for: each value supplied, or else existing
ResultingConfig(c) ==
    [update_frequency_secs |->
        unwrap_or(c.update_frequency_secs, fixed.config.update_frequency_secs),
     staleness_threshold_secs |->
        unwrap_or(c.staleness_threshold_secs, fixed.config.staleness_threshold_secs),
     period_length |-> unwrap_or(c.period_length, fixed.config.period_length),
     data_points_count |->
        unwrap_or(c.data_points_count, fixed.config.data_points_count)]

\* C1: the configuration of a funding record always has update_frequency_secs <
\* staleness_threshold_secs, period_length > 0 and data_points_count > 1; an
\* accepted Initialize or Configure stores exactly the supplied-or-existing
\* values, and one whose values would break a constraint (its accounts being in
\* order) fails with InvalidInstructionData and changes nothing.
C1_ConfigConstraints ==
    /\ Live => ValidConfig(fixed.config)
    /\ \A i \in AllInitializeInputs :
          LET r == initialize_funding_account(Chain, i.m, i.a)
              asked == [update_frequency_secs |-> i.a.update_frequency_secs,
                        staleness_threshold_secs |-> i.a.staleness_threshold_secs,
                        period_length |-> i.a.period_length,
                        data_points_count |-> i.a.data_points_count]
          IN  /\ r.err = "Ok" => r.st.fixed.config = asked /\ ValidConfig(asked)
              /\ ( /\ i.m.is_signer /\ i.m.funding_writable
                   /\ pda(i.a.id, i.a.market_index, i.a.exchange).address = FundingKey
                   /\ ~ValidConfig(asked) )
                 => r.err = "InvalidInstructionData" /\ r.st = Chain
    /\ \A i \in ConfigureInputs, checks \in BOOLEAN :
          LET r == configure_funding_account(Chain, i.m, i.c, checks)
              asked == ResultingConfig(i.c)
          IN  /\ r.err = "Ok" => r.st.fixed.config = asked /\ ValidConfig(asked)
              /\ (Live /\ ByAuthority(i.m) /\ ~ValidConfig(asked))
                 => r.err = "InvalidInstructionData" /\ r.st = Chain

\* a record whose period an accepted Configure has set, on which the authority's
\* Configure asking for a staleness threshold equal to the update frequency, for
\* a zero period or for a single slot is rejected
C1_Witness ==
    /\ Live
    /\ fixed.config.period_length = U32Max
    /\ fixed.config.update_frequency_secs = 1
    /\ \A c \in {ConfigureArgs(None, Some(1), None, None),
                 ConfigureArgs(None, None, Some(0), None),
                 ConfigureArgs(None, None, None, Some(1))} :
          configure_funding_account(Chain, GoodMeta(fixed.authority), c, TRUE).err
              = "InvalidInstructionData"

\* what an instruction signed by someone else than the authority comes to
Gate(r, m) ==
    /\ r.err = "Ok" => Authorised(m)
    /\ ~Authorised(m) =>
          /\ r.st = Chain
          /\ (Live /\ m.funding_writable) => r.err = "MissingOrInvalidAuthority"

\* C2: Update, Configure, ConfigureAuthority and Close succeed only when the
\* first account signed and its key is the record's current authority;
\* otherwise they fail (with MissingOrInvalidAuthority on a record passed
\* writable) and change nothing.  After an accepted ConfigureAuthority(new) the
\* record's authority is new: every other signer is rejected, new is accepted.
C2_AuthorityGate ==
    /\ \A m \in Metas :
          /\ \A data_point \in DataPoints, checks \in BOOLEAN :
                Gate(update_funding(Chain, m, data_point, now, checks), m)
          /\ \A authority \in Keys :
                Gate(configure_funding_account_authority(Chain, m, authority), m)
          /\ \A i \in CloseInputs :
                Gate(close_funding_account(Chain, m, i.receiver,
                                           i.receiver_writable), m)
    /\ \A i \in ConfigureInputs, checks \in BOOLEAN :
          Gate(configure_funding_account(Chain, i.m, i.c, checks), i.m)
    /\ \A m \in Metas, new \in Keys :
          LET r == configure_funding_account_authority(Chain, m, new) IN
          r.err = "Ok" =>
              /\ r.st.fixed.authority = new
              /\ \A k \in Keys \ {new} :
                    /\ \A data_point \in DataPoints :
                          update_funding(r.st, GoodMeta(k), data_point, now, TRUE).err
                              = "MissingOrInvalidAuthority"
                    /\ configure_funding_account(
                           r.st, GoodMeta(k), ConfigureArgs(None, None, None, None),
                           TRUE).err = "MissingOrInvalidAuthority"
                    /\ configure_funding_account_authority(r.st, GoodMeta(k), k).err
                           = "MissingOrInvalidAuthority"
                    /\ close_funding_account(r.st, GoodMeta(k), k, TRUE).err
                           = "MissingOrInvalidAuthority"
              /\ configure_funding_account_authority(r.st, GoodMeta(new), new).err
                     = "Ok"
              /\ close_funding_account(r.st, GoodMeta(new), new, TRUE).err = "Ok"

\* the record that the first wallet paid for, handed to the second, which never
\* held a lamport: the first wallet is rejected, the second accepted
C2_Witness ==
    /\ Live
    /\ fixed.authority = "k2"
    /\ lamports["k2"] = 0
    /\ lamports["k1"] + lamports[FundingAccount] = TotalLamports
    /\ close_funding_account(Chain, GoodMeta("k1"), "k1", TRUE).err
           = "MissingOrInvalidAuthority"
    /\ close_funding_account(Chain, GoodMeta("k2"), "k2", TRUE).err = "Ok"

\* ----------------------------------------------------- the ring and the clock

\* the indices of the slots holding a value
Occupied(dyn) == {i \in 0..(Len(dyn) - 1) : is_some(load_data_point(dyn, i))}

\* the occupied slots are the first ones
IsPrefix(dyn) == \A i \in Occupied(dyn) : \A j \in 0..(i - 1) : j \in Occupied(dyn)

Full(dyn) == Len(dyn) > 0 /\ Cardinality(Occupied(dyn)) = Len(dyn)

\* the record is not stale: now <= last_updated_ts + staleness_threshold_secs
InWindow == now <= fixed.last_updated_ts + fixed.config.staleness_threshold_secs

\* now >= last_updated_ts + update_frequency_secs
Due == now >= fixed.last_updated_ts + fixed.config.update_frequency_secs

\* the authority's Update of the record, its accounts in order
UpdateByAuthority(data_point, checks) ==
    update_funding(Chain, GoodMeta(fixed.authority), data_point, now, checks)

\* the reference average of the values of a full ring: ema_0 = p_0,
\* ema_i = (p_i - ema_(i-1)) * 2 / (period_length + 1) + ema_(i-1) over the
\* integers, the division truncating toward zero
Abs(x) == IF x >= 0 THEN x ELSE -x
\* the quotient of a by b > 0 rounded toward zero: the remainder is smaller than
\* b and has the sign of a
Quotient(a, b) ==
    CHOOSE q \in -Abs(a)..Abs(a) :
        LET rem == a - q * b IN
        /\ Abs(rem) < b
        /\ rem = 0 \/ (rem > 0) = (a > 0)
RECURSIVE RefEmaFrom(_, _, _, _)
RefEmaFrom(dyn, period_length, i, ema) ==
    IF i > Len(dyn) THEN ema
    ELSE RefEmaFrom(dyn, period_length, i + 1,
                    Quotient((dyn[i].val - ema) * 2, period_length + 1) + ema)
RefEma(dyn, period_length) == RefEmaFrom(dyn, period_length, 2, dyn[1].val)

\* C3: while the record is not stale, the authority's Update is accepted exactly
\* when now >= last_updated_ts + update_frequency_secs; an earlier one fails
\* with UpdateTooSoon and changes nothing.
C3_UpdateCadence ==
    (Live /\ InWindow) =>
        \A data_point \in DataPoints, checks \in BOOLEAN :
            LET r == UpdateByAuthority(data_point, checks) IN
            /\ (r.err = "Ok") <=> Due
            /\ ~Due => r.err = "UpdateTooSoon" /\ r.st = Chain

\* a staleness threshold of 2^63 or more is a negative i64: the record that is
\* not stale, updated in this very second with an update frequency of one
\* second, takes the authority's next Update
C3_Witness ==
    /\ Live /\ InWindow /\ ~Due
    /\ fixed.config.staleness_threshold_secs > I64Max
    /\ \A data_point \in DataPoints, checks \in BOOLEAN :
          LET r == UpdateByAuthority(data_point, checks) IN
          r.err = "Ok" /\ r.path = "reset"

\* the cadence of C3 on the records whose staleness threshold is an i64 and
\* whose period_length + 1 is a u32
C3_WithinRange ==
    ( /\ Live /\ InWindow
      /\ fixed.config.staleness_threshold_secs <= I64Max
      /\ fixed.config.period_length < U32Max ) =>
        \A data_point \in DataPoints, checks \in BOOLEAN :
            LET r == UpdateByAuthority(data_point, checks) IN
            /\ (r.err = "Ok") <=> Due
            /\ ~Due => r.err = "UpdateTooSoon" /\ r.st = Chain

\* C4: the ring has data_points_count slots, the occupied ones are the slots
\* 0..k-1 for some k, and after an accepted Update the highest occupied slot
\* holds the value just written.
C4_RingPrefix ==
    Live =>
        /\ Len(dynamic) = fixed.config.data_points_count
        /\ IsPrefix(dynamic)
        /\ \A data_point \in DataPoints, checks \in BOOLEAN :
              LET r == UpdateByAuthority(data_point, checks)
                  k == Cardinality(Occupied(r.st.dynamic))
              IN  r.err = "Ok" =>
                      /\ Len(r.st.dynamic) = fixed.config.data_points_count
                      /\ IsPrefix(r.st.dynamic)
                      /\ 1 <= k /\ k <= fixed.config.data_points_count
                      /\ load_data_point(r.st.dynamic, k - 1) = Some(data_point)

\* a ring of three slots holding two different values, the third free, on which
\* an Update is accepted and fills the third
C4_Witness ==
    /\ Live
    /\ dynamic = <<Some(2), Some(-3), None>>
    /\ LET r == UpdateByAuthority(2, TRUE) IN
       r.err = "Ok" /\ r.st.dynamic = <<Some(2), Some(-3), Some(2)>>

\* C5: an accepted Update on a full ring of a record that is not stale drops
\* the value at slot 0, moves every other value one slot down in order, puts
\* the new value in the last slot, stores the reference average of the
\* resulting ring and sets last_updated_ts to now.
C5_ShiftOnFull ==
    (Live /\ InWindow /\ Full(dynamic)) =>
        \A data_point \in DataPoints, checks \in BOOLEAN :
            LET r == UpdateByAuthority(data_point, checks)
                n == fixed.config.data_points_count
            IN  r.err = "Ok" =>
                    /\ \A i \in 0..(n - 2) :
                          load_data_point(r.st.dynamic, i)
                              = load_data_point(dynamic, i + 1)
                    /\ load_data_point(r.st.dynamic, n - 1) = Some(data_point)
                    /\ r.st.fixed.funding_ema
                           = Some(RefEma(r.st.dynamic, fixed.config.period_length))
                    /\ r.st.fixed.last_updated_ts = now

\* a full ring under a staleness threshold of 2^63 or more: the Update that is
\* due on the record that is not stale clears the ring
C5_Witness ==
    /\ Live /\ InWindow /\ Due /\ Full(dynamic)
    /\ fixed.config.staleness_threshold_secs > I64Max
    /\ \A data_point \in DataPoints, checks \in BOOLEAN :
          LET r == UpdateByAuthority(data_point, checks) IN
          /\ r.err = "Ok"
          /\ Occupied(r.st.dynamic) = {0}
          /\ is_none(r.st.fixed.funding_ema)

\* the shift of C5 on the records whose staleness threshold is an i64
C5_WithinRange ==
    ( /\ Live /\ InWindow /\ Full(dynamic)
      /\ fixed.config.staleness_threshold_secs <= I64Max ) =>
        \A data_point \in DataPoints, checks \in BOOLEAN :
            LET r == UpdateByAuthority(data_point, checks)
                n == fixed.config.data_points_count
            IN  r.err = "Ok" =>
                    /\ \A i \in 0..(n - 2) :
                          load_data_point(r.st.dynamic, i)
                              = load_data_point(dynamic, i + 1)
                    /\ load_data_point(r.st.dynamic, n - 1) = Some(data_point)
                    /\ r.st.fixed.funding_ema
                           = Some(RefEma(r.st.dynamic, fixed.config.period_length))
                    /\ r.st.fixed.last_updated_ts = now

\* C6: the recomputation of the average over a full ring yields the reference
\* average of its values.
C6_EmaIsReference ==
    (Live /\ Full(dynamic)) =>
        \A checks \in BOOLEAN :
            LET r == update_ema(fixed, dynamic, checks) IN
            /\ r.ok
            /\ r.fixed.funding_ema = Some(RefEma(dynamic, fixed.config.period_length))

\* a full ring under a period_length of u32::MAX: period_length + 1 traps or
\* wraps to 0, and no average comes out of either build
C6_Witness ==
    /\ Live /\ Full(dynamic)
    /\ fixed.config.period_length = U32Max
    /\ \A checks \in BOOLEAN : ~update_ema(fixed, dynamic, checks).ok

\* the average of C6 on the records whose period_length + 1 is a u32
C6_WithinRange ==
    (Live /\ Full(dynamic) /\ fixed.config.period_length < U32Max) =>
        \A checks \in BOOLEAN :
            LET r == update_ema(fixed, dynamic, checks) IN
            /\ r.ok
            /\ r.fixed.funding_ema = Some(RefEma(dynamic, fixed.config.period_length))

\* C7: the authority's Update at now > last_updated_ts +
\* staleness_threshold_secs is accepted and resets the ring: the new value in
\* slot 0, every other slot None, no average, last_updated_ts = now; at now
\* equal to that bound the ring is not reset.
C7_StaleReset ==
    Live =>
        \A data_point \in DataPoints, checks \in BOOLEAN :
            LET r == UpdateByAuthority(data_point, checks) IN
            /\ ~InWindow =>
                  /\ r.err = "Ok"
                  /\ load_data_point(r.st.dynamic, 0) = Some(data_point)
                  /\ Occupied(r.st.dynamic) = {0}
                  /\ Len(r.st.dynamic) = fixed.config.data_points_count
                  /\ is_none(r.st.fixed.funding_ema)
                  /\ r.st.fixed.last_updated_ts = now
            /\ ( /\ now = fixed.last_updated_ts + fixed.config.staleness_threshold_secs
                 /\ Cardinality(Occupied(dynamic)) > 1
                 /\ r.err = "Ok" )
               => Cardinality(Occupied(r.st.dynamic)) > 1

\* a stale record with a full ring and an average, which the Update clears
C7_Witness ==
    /\ Live /\ ~InWindow
    /\ Full(dynamic)
    /\ is_some(fixed.funding_ema)
    /\ LET r == UpdateByAuthority(2, FALSE) IN
       /\ r.err = "Ok"
       /\ r.st.dynamic = <<Some(2)>> \o [i \in 1..(Len(dynamic) - 1) |-> None]
       /\ is_none(r.st.fixed.funding_ema)

\* C8: the data of a funding record is as long as its header and 16 bytes for
\* each of the data_points_count slots of its configuration, after Initialize
\* and after every accepted Configure, Update and ConfigureAuthority.
C8_SizeMatchesCount ==
    Live =>
        /\ data_len = FIXED_SIZE + 16 * fixed.config.data_points_count
        /\ Len(dynamic) = fixed.config.data_points_count

\* a record resized to the largest count, holding a value, which the authority
\* can resize again
C8_Witness ==
    /\ Live
    /\ data_len = FIXED_SIZE + 16 * MaxCount
    /\ fixed.last_updated_ts > 0
    /\ Cardinality(Occupied(dynamic)) = 2
    /\ LET r == configure_funding_account(
                    Chain, GoodMeta(fixed.authority),
                    ConfigureArgs(None, None, None, Some(2)), TRUE)
       IN  r.err = "Ok" /\ r.st.data_len = FIXED_SIZE + 32

\* C9: a successful Initialize leaves a record owned by the program with the
\* signer as authority, the given id, venue, market index and configuration,
\* last_updated_ts = 0, no average, and data_points_count slots, all None.
C9_InitializeResult ==
    \A i \in AllInitializeInputs :
        LET r == initialize_funding_account(Chain, i.m, i.a) IN
        r.err = "Ok" =>
            /\ r.st.owner = ProgramId
            /\ r.st.fixed.authority = i.m.signer
            /\ r.st.fixed.id = i.a.id
            /\ r.st.fixed.exchange = i.a.exchange
            /\ r.st.fixed.market_index = i.a.market_index
            /\ r.st.fixed.config =
                  [update_frequency_secs |-> i.a.update_frequency_secs,
                   staleness_threshold_secs |-> i.a.staleness_threshold_secs,
                   period_length |-> i.a.period_length,
                   data_points_count |-> i.a.data_points_count]
            /\ r.st.fixed.last_updated_ts = 0
            /\ is_none(r.st.fixed.funding_ema)
            /\ Len(r.st.dynamic) = i.a.data_points_count
            /\ Occupied(r.st.dynamic) = {}

\* the record the first wallet has created with the largest count and paid the
\* rent of
C9_Witness ==
    /\ Live
    /\ fixed = [bump |-> PdaBump, id |-> 0, exchange |-> "Drift", market_index |-> 0,
                authority |-> "k1", last_updated_ts |-> 0,
                config |-> [update_frequency_secs |-> 0,
                            staleness_threshold_secs |-> HugeStaleness,
                            period_length |-> 2, data_points_count |-> MaxCount],
                funding_ema |-> None]
    /\ dynamic = [i \in 1..MaxCount |-> None]
    /\ lamports = [a \in Keys \cup {FundingAccount} |->
                      IF a = "k1" THEN SpareLamports
                      ELSE IF a = "k2" THEN 0
                      ELSE RentMinimumBalance(size(MaxCount))]

\* C10: an accepted Configure to a larger data_points_count keeps every value
\* of the ring in its slot and last_updated_ts; every added slot reads None.
C10_GrowPreserves ==
    \A i \in ConfigureInputs, checks \in BOOLEAN :
        LET r == configure_funding_account(Chain, i.m, i.c, checks)
            prev_count == fixed.config.data_points_count
        IN  ( /\ r.err = "Ok"
              /\ is_some(i.c.data_points_count)
              /\ i.c.data_points_count.val > prev_count ) =>
                /\ Len(r.st.dynamic) = i.c.data_points_count.val
                /\ \A j \in 0..(prev_count - 1) :
                      load_data_point(r.st.dynamic, j) = load_data_point(dynamic, j)
                /\ \A j \in prev_count..(i.c.data_points_count.val - 1) :
                      is_none(load_data_point(r.st.dynamic, j))
                /\ r.st.fixed.last_updated_ts = fixed.last_updated_ts

\* a full ring of two different values that the authority grows by a slot
C10_Witness ==
    /\ Live
    /\ dynamic = <<Some(-3), Some(2)>>
    /\ fixed.last_updated_ts > 0
    /\ LET r == configure_funding_account(
                    Chain, GoodMeta(fixed.authority),
                    ConfigureArgs(None, None, None, Some(3)), FALSE)
       IN  /\ r.err = "Ok"
           /\ r.st.dynamic = <<Some(-3), Some(2), None>>
           /\ r.st.fixed.last_updated_ts = fixed.last_updated_ts

\* C11: an accepted Configure to a smaller data_points_count leaves the record
\* with no average, last_updated_ts = 0 and new_count slots, all None, whatever
\* the ring held.
C11_ShrinkClears ==
    \A i \in ConfigureInputs, checks \in BOOLEAN :
        LET r == configure_funding_account(Chain, i.m, i.c, checks) IN
        ( /\ r.err = "Ok"
          /\ is_some(i.c.data_points_count)
          /\ i.c.data_points_count.val < fixed.config.data_points_count ) =>
            /\ is_none(r.st.fixed.funding_ema)
            /\ r.st.fixed.last_updated_ts = 0
            /\ Len(r.st.dynamic) = i.c.data_points_count.val
            /\ Occupied(r.st.dynamic) = {}

\* a full ring of three slots with an average, which the authority shrinks to
\* two
C11_Witness ==
    /\ Live
    /\ Len(dynamic) = 3 /\ Full(dynamic)
    /\ is_some(fixed.funding_ema)
    /\ fixed.last_updated_ts > 0
    /\ LET r == configure_funding_account(
                    Chain, GoodMeta(fixed.authority),
                    ConfigureArgs(None, None, None, Some(2)), FALSE)
       IN  /\ r.err = "Ok"
           /\ r.st.dynamic = <<None, None>>
           /\ is_none(r.st.fixed.funding_ema)
           /\ r.st.fixed.last_updated_ts = 0

\* C12: an accepted Configure that sets data_points_count moves exactly the
\* difference of the two rents between the signing authority and the funding
\* account: the authority pays rent(new size) - rent(old size) on a grow and
\* receives rent(old size) - rent(new size) on a shrink, the funding account
\* ends with the rent-exempt minimum of its new size, and no other balance moves.
C12_ResizeLamports ==
    /\ Live => lamports[FundingAccount] = RentMinimumBalance(data_len)
    /\ \A i \in ConfigureInputs, checks \in BOOLEAN :
          LET r == configure_funding_account(Chain, i.m, i.c, checks)
              old_rent == RentMinimumBalance(size(fixed.config.data_points_count))
              new_rent == RentMinimumBalance(size(i.c.data_points_count.val))
              authority == i.m.signer
          IN  (r.err = "Ok" /\ is_some(i.c.data_points_count)) =>
                  /\ r.st.lamports[authority] - lamports[authority]
                         = old_rent - new_rent
                  /\ r.st.lamports[FundingAccount] = new_rent
                  /\ r.st.lamports[authority] + r.st.lamports[FundingAccount]
                         = lamports[authority] + lamports[FundingAccount]
                  /\ \A k \in Keys \ {authority} : r.st.lamports[k] = lamports[k]

\* the second wallet, authority of a record of two slots, holding the refund of
\* a shrink and nothing else: it pays it back to grow the record by a slot
C12_Witness ==
    /\ Live
    /\ fixed.authority = "k2"
    /\ fixed.config.data_points_count = 2
    /\ lamports["k2"] = RentMinimumBalance(size(3)) - RentMinimumBalance(size(2))
    /\ LET r == configure_funding_account(
                    Chain, GoodMeta("k2"),
                    ConfigureArgs(None, None, None, Some(3)), TRUE)
       IN  /\ r.err = "Ok"
           /\ r.st.lamports["k2"] = 0
           /\ r.st.lamports[FundingAccount] = RentMinimumBalance(size(3))

\* C13: an accepted Close leaves the funding account with 0 lamports, no data
\* and the system program as owner, and the receiver with its balance plus all
\* the lamports the funding account held, no other balance moving; the
\* authority's Close to a receiver passed read-only fails with
\* AccountsNeedToBeWritable and changes nothing.
C13_CloseDrains ==
    \A i \in CloseInputs :
        LET r == close_funding_account(Chain, i.m, i.receiver, i.receiver_writable)
            other == Keys \ {i.receiver}
        IN  /\ r.err = "Ok" =>
                  /\ r.st.lamports[FundingAccount] = 0
                  /\ r.st.data_len = 0
                  /\ r.st.dynamic = <<>>
                  /\ r.st.owner = SystemProgram
                  /\ r.st.lamports[i.receiver]
                         = lamports[i.receiver] + lamports[FundingAccount]
                  /\ \A k \in other : r.st.lamports[k] = lamports[k]
            /\ (Live /\ ByAuthority(i.m) /\ ~i.receiver_writable) =>
                  /\ r.err = "AccountsNeedToBeWritable"
                  /\ r.st = Chain

\* a record holding a value whose authority can close it to the other wallet,
\* which then holds the rent, and cannot close it to a wallet passed read-only
C13_Witness ==
    /\ Live
    /\ fixed.authority = "k1"
    /\ Cardinality(Occupied(dynamic)) > 0
    /\ lamports["k2"] = 0
    /\ LET r == close_funding_account(Chain, GoodMeta("k1"), "k2", TRUE) IN
       /\ r.err = "Ok"
       /\ r.st.lamports["k2"] = RentMinimumBalance(data_len)
       /\ r.st.lamports[FundingAccount] = 0
       /\ r.st.owner = SystemProgram
    /\ close_funding_account(Chain, GoodMeta("k1"), "k2", FALSE).err
           = "AccountsNeedToBeWritable"

\* C14: an accepted Configure without a data_points_count sets each supplied
\* field of update_frequency_secs, staleness_threshold_secs and period_length to
\* the supplied value and changes nothing else: the unsupplied fields,
\* data_points_count, exchange and market, every data point, funding_ema,
\* last_updated_ts, the authority, the account's size, owner and lamports.
C14_FieldsOnly ==
    \A i \in ConfigureInputs, checks \in BOOLEAN :
        LET r == configure_funding_account(Chain, i.m, i.c, checks)
            old == fixed.config
            new == r.st.fixed.config
            Kept(opt, before, after) ==
                after = (IF is_some(opt) THEN opt.val ELSE before)
        IN  (r.err = "Ok" /\ is_none(i.c.data_points_count)) =>
                /\ Kept(i.c.update_frequency_secs,
                        old.update_frequency_secs, new.update_frequency_secs)
                /\ Kept(i.c.staleness_threshold_secs,
                        old.staleness_threshold_secs, new.staleness_threshold_secs)
                /\ Kept(i.c.period_length, old.period_length, new.period_length)
                /\ r.st.fixed = [fixed EXCEPT
                       !.config.update_frequency_secs = new.update_frequency_secs,
                       !.config.staleness_threshold_secs =
                           new.staleness_threshold_secs,
                       !.config.period_length = new.period_length]
                /\ r.st.dynamic = dynamic
                /\ r.st.data_len = data_len
                /\ r.st.owner = owner
                /\ r.st.lamports = lamports

\* a record with a full ring and an average, updated at a known time, whose
\* authority changes the period alone and, separately, the update frequency
\* alone
C14_Witness ==
    /\ Live
    /\ Full(dynamic)
    /\ is_some(fixed.funding_ema)
    /\ fixed.last_updated_ts > 0
    /\ fixed.config.update_frequency_secs = 1
    /\ LET r == configure_funding_account(
                    Chain, GoodMeta(fixed.authority),
                    ConfigureArgs(Some(0), None, None, None), TRUE)
       IN  /\ r.err = "Ok"
           /\ r.st.fixed.config.update_frequency_secs = 0
           /\ r.st.fixed.funding_ema = fixed.funding_ema
           /\ r.st.dynamic = dynamic
    /\ LET r == configure_funding_account(
                    Chain, GoodMeta(fixed.authority),
                    ConfigureArgs(None, None, Some(U32Max), None), FALSE)
       IN  /\ r.err = "Ok"
           /\ r.st.fixed.config.period_length = U32Max
           /\ r.st.fixed.config.update_frequency_secs = 1

\* ================================================================ the relayer
\* src/bot/src/services/funding_relayer.rs: the snapshot task and the publish
\* task of start_funding_relayer over the shared cache.

SNAPSHOT_TIMEOUT_SECS == 30
\* `markets_with_instructions.chunks(10)`
CHUNK_SIZE == 10
\* `if retries == 2`
RetriesLimit == 2

\* bounds
MaxInstant == 60
MaxHistory == 3
MaxMarkets == 23

\* funding rates a venue computation yields
FundingRates == {-3, 2}
\* update_frequency_secs of the funding accounts the cache is loaded from, in
\* cache order: rings of 0, 1 and 2 snapshots
RelayedUpdateFrequencies == {<<29>>, <<30>>, <<60>>, <<30, 60>>, <<60, 29>>}

MarketFundingCache(market, update_frequency_secs, funding_snapshots, last_account_update_at) ==
    [market |-> market, update_frequency_secs |-> update_frequency_secs,
     funding_snapshots |-> funding_snapshots,
     last_account_update_at |-> last_account_update_at]

cache_funding_rates(c) == c.update_frequency_secs \div SNAPSHOT_TIMEOUT_SECS

\* insert_funding_rate that drops the newest snapshot when full
insert_funding_rate_dropping_newest(c, funding_rate) ==
    IF Len(c.funding_snapshots) = cache_funding_rates(c)
    THEN IF c.funding_snapshots = <<>>
         THEN [ok |-> FALSE, c |-> c]
         ELSE [ok |-> TRUE,
               c |-> [c EXCEPT !.funding_snapshots =
                         Append(SubSeq(@, 1, Len(@) - 1), funding_rate)]]
    ELSE [ok |-> TRUE,
          c |-> [c EXCEPT !.funding_snapshots = Append(@, funding_rate)]]

\* ok = FALSE: Vec::remove(0) on an empty Vec panics
insert_funding_rate(c, funding_rate) ==
    IF Len(c.funding_snapshots) = cache_funding_rates(c)
    THEN IF c.funding_snapshots = <<>>
         THEN [ok |-> FALSE, c |-> c]
         ELSE [ok |-> TRUE,
               c |-> [c EXCEPT !.funding_snapshots = Append(Tail(@), funding_rate)]]
    ELSE [ok |-> TRUE,
          c |-> [c EXCEPT !.funding_snapshots = Append(@, funding_rate)]]

\* `iter().sum::<i64>()` from element i on, acc being the sum so far
RECURSIVE sum_i64(_, _, _, _)
sum_i64(snapshots, i, acc, checks) ==
    IF i > Len(snapshots) THEN [ok |-> TRUE, v |-> acc]
    ELSE LET s == I64Arith(acc + snapshots[i], checks) IN
         IF ~s.ok THEN s ELSE sum_i64(snapshots, i + 1, s.v, checks)

\* ok = FALSE: the sum overflows under overflow checks, or `sum / 0` panics
get_average_funding_rate(c, checks) ==
    LET len == cache_funding_rates(c) IN
    IF Len(c.funding_snapshots) = len
    THEN LET sum == sum_i64(c.funding_snapshots, 1, 0, checks) IN
         IF ~sum.ok \/ len = 0 THEN [ok |-> FALSE, rate |-> None]
         ELSE [ok |-> TRUE, rate |-> Some(TruncDiv(sum.v, len))]
    ELSE [ok |-> TRUE, rate |-> None]

\* `last_account_update_at.elapsed().as_secs() < update_frequency_secs`
too_early(c, instant_now) ==
    instant_now - c.last_account_update_at < c.update_frequency_secs

\* update_funding_account(.., funding_rate) for the market's funding account
update_funding_account(c, funding_rate) ==
    [market |-> c.market, data_point |-> funding_rate]

\* the loop over cache_lock from entry i on, acc being the instructions pushed
RECURSIVE collect_instructions(_, _, _, _, _)
collect_instructions(c, instant_now, i, acc, checks) ==
    IF i > Len(c) THEN [ok |-> TRUE, ixs |-> acc]
    ELSE IF too_early(c[i], instant_now)
    THEN collect_instructions(c, instant_now, i + 1, acc, checks)
    ELSE LET average == get_average_funding_rate(c[i], checks) IN
         IF ~average.ok THEN [ok |-> FALSE, ixs |-> acc]
         ELSE IF is_none(average.rate)
         THEN collect_instructions(c, instant_now, i + 1, acc, checks)
         ELSE collect_instructions(
                  c, instant_now, i + 1,
                  Append(acc, update_funding_account(c[i], average.rate.val)),
                  checks)

\* chunks that start on the last element of the chunk before
chunk_at_overlapping(ixs, k) ==
    SubSeq(ixs, (k - 1) * (CHUNK_SIZE - 1) + 1,
           IF (k - 1) * (CHUNK_SIZE - 1) + CHUNK_SIZE < Len(ixs)
           THEN (k - 1) * (CHUNK_SIZE - 1) + CHUNK_SIZE ELSE Len(ixs))

\* the k-th slice of `chunks(10)`, k from 1
chunk_at(ixs, k) ==
    SubSeq(ixs, (k - 1) * CHUNK_SIZE + 1,
           IF k * CHUNK_SIZE < Len(ixs) THEN k * CHUNK_SIZE ELSE Len(ixs))

\* the chunks iterator has a slice left after k of them
has_chunk_after(ixs, k) == k * CHUNK_SIZE < Len(ixs)

\* `cache.iter_mut().find(|c| &c.market == market).map(..)`
\* a Success that writes the entry back as the publish task read it: without
\* the snapshots
bump_found_dropping_snapshots(c, market, instant_now) ==
    [j \in DOMAIN c |->
        IF c[j].market = market
        THEN [c[j] EXCEPT !.last_account_update_at = instant_now,
                          !.funding_snapshots = <<>>]
        ELSE c[j]]

bump_found(c, market, instant_now) ==
    LET found == {i \in DOMAIN c : c[i].market = market} IN
    IF found = {} THEN c
    ELSE LET first == CHOOSE i \in found : \A j \in found : i <= j IN
         [c EXCEPT ![first].last_account_update_at = instant_now]

\* a Success that marks every market of the cache
bump_every_market(c, ixs, i, instant_now) ==
    [j \in DOMAIN c |-> [c[j] EXCEPT !.last_account_update_at = instant_now]]

\* the loop over the chunk's markets on Success, from element i on
RECURSIVE bump_markets(_, _, _, _)
bump_markets(c, ixs, i, instant_now) ==
    IF i > Len(ixs) THEN c
    ELSE bump_markets(bump_found(c, ixs[i].market, instant_now), ixs, i + 1,
                      instant_now)

\* the funding computation of one market in a snapshot cycle: the rate, or a
\* failed lookup of the market and oracle, or a failed computation
Computed(fr) == [ok |-> TRUE, funding_rate |-> fr, why |-> "computed"]
NotComputed(why) == [ok |-> FALSE, funding_rate |-> 0, why |-> why]
Computations ==
    {Computed(fr) : fr \in FundingRates}
        \cup {NotComputed("lookup"), NotComputed("calculate")}

\* the latest MaxHistory rates insert_funding_rate has taken, newest last
remember(history, funding_rate) ==
    LET all == Append(history, funding_rate) IN
    IF Len(all) > MaxHistory THEN Tail(all) ELSE all

\* the loop over cache.iter_mut() from entry i on; computations[i] is what the
\* venue state yields for entry i; ok = FALSE: insert_funding_rate panicked
RECURSIVE snapshot_cycle(_, _, _, _)
snapshot_cycle(c, history, computations, i) ==
    IF i > Len(c) THEN [ok |-> TRUE, cache |-> c, inserted |-> history]
    ELSE IF ~computations[i].ok THEN snapshot_cycle(c, history, computations, i + 1)
    ELSE LET r == insert_funding_rate(c[i], computations[i].funding_rate) IN
         IF ~r.ok THEN [ok |-> FALSE, cache |-> c, inserted |-> history]
         ELSE snapshot_cycle(
                  [c EXCEPT ![i] = r.c],
                  [history EXCEPT ![i] = remember(@, computations[i].funding_rate)],
                  computations, i + 1)

\* the errors update_for_funding_snapshot returns
RefreshErrors == {"UnableToFetchAccount", "RpcError"}

\* main returns as soon as either task does (tokio::select!)
Alive == snapshot_task = "running" /\ relayer_task \notin {"ended", "panicked"}

\* one turn of the snapshot task's loop; refreshed: update_for_funding_snapshot
\* returned Ok
SnapshotCycle ==
    /\ Alive
    /\ \E refreshed \in BOOLEAN, computations \in [DOMAIN cache -> Computations] :
          IF ~refreshed
          THEN /\ snapshot_task' = "ended"
               /\ \E e \in RefreshErrors : program_result' = Returned(e)
               /\ UNCHANGED <<cache, inserted>>
          ELSE LET r == snapshot_cycle(cache, inserted, computations, 1) IN
               /\ cache' = r.cache
               /\ inserted' = r.inserted
               /\ snapshot_task' = IF r.ok THEN "running" ELSE "panicked"
               /\ program_result' = IF r.ok THEN program_result ELSE JoinError
    /\ UNCHANGED <<instant, relayer_task, markets_with_instructions, chunk, tx,
                   retries, built, sent, exit>>
    /\ UNCHANGED <<program_vars, library_vars, websocket_vars>>

\* the publish task reads the cache under the lock; with nothing to send it
\* sleeps and starts over
RelayerCollect ==
    /\ Alive
    /\ relayer_task = "collect"
    /\ \E checks \in BOOLEAN :
          LET r == collect_instructions(cache, instant, 1, <<>>, checks) IN
          /\ markets_with_instructions' = IF r.ok THEN r.ixs ELSE <<>>
          /\ relayer_task' = IF ~r.ok THEN "panicked"
                             ELSE IF Len(r.ixs) > 0 THEN "build" ELSE "collect"
          /\ program_result' = IF r.ok THEN program_result ELSE JoinError
    /\ chunk' = 0
    /\ tx' = <<>>
    /\ retries' = 0
    /\ built' = <<>>
    /\ sent' = <<>>
    /\ UNCHANGED <<cache, instant, snapshot_task, inserted, exit>>
    /\ UNCHANGED <<program_vars, library_vars, websocket_vars>>

\* build_signed_transaction for the next chunk; ok: it returned Ok
RelayerBuild ==
    /\ Alive
    /\ relayer_task = "build"
    /\ \E ok \in BOOLEAN :
          IF ~ok
          THEN /\ relayer_task' = "ended"
               /\ program_result' = Returned("TransactionErrorClient")
               /\ UNCHANGED <<chunk, tx, retries, built>>
          ELSE /\ chunk' = chunk + 1
               /\ tx' = chunk_at(markets_with_instructions, chunk + 1)
               /\ retries' = 0
               /\ built' = Append(built, chunk_at(markets_with_instructions, chunk + 1))
               /\ relayer_task' = "send"
               /\ UNCHANGED program_result
    /\ UNCHANGED <<cache, instant, snapshot_task, markets_with_instructions, sent,
                   inserted, exit>>
    /\ UNCHANGED <<program_vars, library_vars, websocket_vars>>

\* where the task goes when it leaves the retry loop of a chunk
after_chunk == IF has_chunk_after(markets_with_instructions, chunk) THEN "build" ELSE "collect"

\* a retry loop that builds and signs the chunk again after a Timeout
RelayerSendRebuilding ==
    /\ Alive
    /\ relayer_task = "send"
    /\ \E result \in {"Timeout", "Error", "Success", "RpcError"} :
          IF result = "RpcError"
          THEN /\ relayer_task' = "ended"
               /\ program_result' = Returned("RpcError")
               /\ UNCHANGED <<cache, retries, sent, built>>
          ELSE /\ sent' = Append(sent, [chunk |-> chunk, tx |-> tx, result |-> result])
               /\ retries' = IF result = "Timeout" THEN retries + 1 ELSE retries
               /\ cache' = IF result = "Success"
                           THEN bump_markets(
                                    cache, chunk_at(markets_with_instructions, chunk),
                                    1, instant)
                           ELSE cache
               /\ relayer_task' =
                      IF result = "Timeout" /\ retries + 1 # RetriesLimit
                      THEN "send" ELSE after_chunk
               /\ built' = IF result = "Timeout" /\ retries + 1 # RetriesLimit
                           THEN Append(built, tx) ELSE built
               /\ UNCHANGED program_result
    /\ UNCHANGED <<instant, snapshot_task, markets_with_instructions, chunk, tx,
                   inserted, exit>>
    /\ UNCHANGED <<program_vars, library_vars, websocket_vars>>

\* send_and_confirm_transaction and the match on its result; "RpcError": it
\* returned Err
RelayerSend ==
    /\ Alive
    /\ relayer_task = "send"
    /\ \E result \in {"Timeout", "Error", "Success", "RpcError"} :
          IF result = "RpcError"
          THEN /\ relayer_task' = "ended"
               /\ program_result' = Returned("RpcError")
               /\ UNCHANGED <<cache, retries, sent>>
          ELSE /\ sent' = Append(sent, [chunk |-> chunk, tx |-> tx, result |-> result])
               /\ retries' = IF result = "Timeout" THEN retries + 1 ELSE retries
               /\ cache' = IF result = "Success"
                           THEN bump_markets(
                                    cache, chunk_at(markets_with_instructions, chunk),
                                    1, instant)
                           ELSE cache
               /\ relayer_task' =
                      IF result = "Timeout" /\ retries + 1 # RetriesLimit
                      THEN "send" ELSE after_chunk
               /\ UNCHANGED program_result
    /\ UNCHANGED <<instant, snapshot_task, markets_with_instructions, chunk, tx,
                   built, inserted, exit>>
    /\ UNCHANGED <<program_vars, library_vars, websocket_vars>>

\* time passes, a snapshot period at a time
RelayerTick ==
    /\ Alive
    /\ instant + SNAPSHOT_TIMEOUT_SECS <= MaxInstant
    /\ instant' = instant + SNAPSHOT_TIMEOUT_SECS
    /\ UNCHANGED <<cache, snapshot_task, relayer_task, markets_with_instructions,
                   chunk, tx, retries, built, sent, inserted, program_result, exit>>
    /\ UNCHANGED <<program_vars, library_vars, websocket_vars>>

\* a start that reports the shutdown whatever the task returned
start_result_without_question_mark(result) == "ServiceShutdownUnexpectedly"

\* the Err start returns once the select has yielded result: `res?` for a
\* task that returned, and ServiceShutdownUnexpectedly after it
start_result(result) ==
    IF result.handle = "Ok" /\ result.res # "Ok" THEN result.res
    ELSE "ServiceShutdownUnexpectedly"

\* the select of start yields the handle that completed, and start returns
Shutdown ==
    /\ program_result # Pending
    /\ exit = "Running"
    /\ exit' = start_result(program_result)
    /\ UNCHANGED <<cache, instant, snapshot_task, relayer_task,
                   markets_with_instructions, chunk, tx, retries, built, sent,
                   inserted, program_result>>
    /\ UNCHANGED <<program_vars, library_vars, websocket_vars>>

\* the cache start_funding_relayer loads: one entry per funding account, no
\* snapshot yet, last_account_update_at = Instant::now()
Loaded(frequencies) ==
    [i \in DOMAIN frequencies |-> MarketFundingCache(i, frequencies[i], <<>>, 0)]

InitRelayer ==
    /\ Unallocated
    /\ NotSpawned
    /\ NotCalled
    /\ \E frequencies \in RelayedUpdateFrequencies :
          /\ cache = Loaded(frequencies)
          /\ inserted = [i \in DOMAIN frequencies |-> <<>>]
    /\ instant = 0
    /\ snapshot_task = "running"
    /\ relayer_task = "collect"
    /\ markets_with_instructions = <<>>
    /\ chunk = 0
    /\ tx = <<>>
    /\ retries = 0
    /\ built = <<>>
    /\ sent = <<>>
    /\ program_result = Pending
    /\ exit = "Running"

NextRelayer ==
    SnapshotCycle \/ RelayerCollect \/ RelayerBuild \/ RelayerSend \/ RelayerTick
        \/ Shutdown

SpecRelayer == InitRelayer /\ [][NextRelayer]_vars

\* a cache of up to MaxMarkets markets a snapshot period after the first
\* snapshot cycle, in which the computation of at most one market failed
Snapshotted(n, missed) ==
    [i \in 1..n |->
        MarketFundingCache(i, SNAPSHOT_TIMEOUT_SECS,
                           IF i = missed THEN <<>>
                           ELSE IF i % 2 = 0 THEN <<2>> ELSE <<-3>>,
                           0)]

InitPublish ==
    /\ Unallocated
    /\ NotSpawned
    /\ NotCalled
    /\ \E n \in 0..MaxMarkets :
          \E missed \in 0..n :
              /\ cache = Snapshotted(n, missed)
              /\ inserted = [i \in 1..n |-> Snapshotted(n, missed)[i].funding_snapshots]
    /\ instant = SNAPSHOT_TIMEOUT_SECS
    /\ snapshot_task = "running"
    /\ relayer_task = "collect"
    /\ markets_with_instructions = <<>>
    /\ chunk = 0
    /\ tx = <<>>
    /\ retries = 0
    /\ built = <<>>
    /\ sent = <<>>
    /\ program_result = Pending
    /\ exit = "Running"

NextPublish == RelayerCollect \/ RelayerBuild \/ RelayerSend \/ Shutdown

SpecPublish == InitPublish /\ [][NextPublish]_vars

\* ------------------------------------------------------ the relayer's claims

\* the instructions of the transactions txs, one after the other
RECURSIVE Flatten(_)
Flatten(txs) == IF txs = <<>> THEN <<>> ELSE Head(txs) \o Flatten(Tail(txs))

\* where a market is in the cache
Position(market) == CHOOSE i \in DOMAIN cache : cache[i].market = market

\* the publish task is between two cycles: the last one ran to its end
CycleOver == relayer_task = "collect"

\* C15: the transactions built in a publish cycle are the instructions collected
\* for the due markets cut, in order, into runs of 10 with a shorter last one:
\* every transaction has 1 to 10 Update instructions, the instructions are those
\* of distinct markets in cache order, each in one transaction, a cycle that
\* runs to its end has built ceil(n/10) of them for n due markets, and every
\* submission of a chunk sends the one transaction built for it.
C15_Chunking ==
    LET n == Len(markets_with_instructions)
        all == Flatten(built)
    IN  /\ Len(all) <= n
        /\ all = SubSeq(markets_with_instructions, 1, Len(all))
        /\ \A k \in DOMAIN built :
              /\ Len(built[k]) \in 1..10
              /\ k < Len(built) => Len(built[k]) = 10
        /\ \A i, j \in DOMAIN markets_with_instructions :
              i < j => Position(markets_with_instructions[i].market)
                           < Position(markets_with_instructions[j].market)
        /\ CycleOver =>
              /\ all = markets_with_instructions
              /\ 10 * (Len(built) - 1) < n \/ (n = 0 /\ built = <<>>)
              /\ n <= 10 * Len(built)
        /\ \A e \in DOMAIN sent :
              /\ sent[e].chunk \in DOMAIN built
              /\ sent[e].tx = built[sent[e].chunk]

\* a cycle with 23 due markets is over: three transactions of 10, 10 and 3
\* instructions, the first of them submitted twice
C15_Witness ==
    /\ CycleOver
    /\ Len(markets_with_instructions) = 23
    /\ Len(built) = 3
    /\ <<Len(built[1]), Len(built[2]), Len(built[3])>> = <<10, 10, 3>>
    /\ Cardinality({e \in DOMAIN sent : sent[e].chunk = 1}) = 2

\* the markets whose instructions a transaction carries
MarketsOf(transaction) == {transaction[i].market : i \in DOMAIN transaction}

\* the step is a submission that came back; its record is the last of sent'
Submitted == Len(sent') = Len(sent) + 1

\* C16: a submission confirmed Success sets last_account_update_at to the
\* current instant in the cache entries of the markets of that chunk and changes
\* no other entry; a submission that ends in Error or Timeout changes no entry;
\* and when a chunk ends without Success, by Error or by its last Timeout, the
\* task goes on to build the next chunk if instructions are left, and to its
\* next cycle otherwise.
C16_SuccessBumpsChunk ==
    [][Submitted =>
          LET e == sent'[Len(sent')]
              left == Len(Flatten(built)) < Len(markets_with_instructions)
          IN  /\ e.result = "Success" =>
                    \A i \in DOMAIN cache :
                        cache'[i] =
                            IF cache[i].market \in MarketsOf(built[e.chunk])
                            THEN [cache[i] EXCEPT !.last_account_update_at = instant]
                            ELSE cache[i]
              /\ e.result # "Success" => cache' = cache
              /\ (e.result # "Success" /\ relayer_task' # "send") =>
                    /\ relayer_task' = IF left THEN "build" ELSE "collect"
                    /\ built' = built
                    /\ markets_with_instructions' = markets_with_instructions
       ]_vars

\* 23 markets due: the first chunk timed out and then succeeded, the second
\* ended in Error, the third is about to be built; the first ten markets, and
\* only they, carry the current instant
C16_Witness ==
    /\ Len(cache) = 23
    /\ Len(markets_with_instructions) = 23
    /\ Len(sent) = 3
    /\ <<sent[1].result, sent[2].result, sent[3].result>>
           = <<"Timeout", "Success", "Error">>
    /\ <<sent[1].chunk, sent[2].chunk, sent[3].chunk>> = <<1, 1, 2>>
    /\ relayer_task = "build"
    /\ \A i \in 1..10 : cache[i].last_account_update_at = instant
    /\ \A i \in 11..23 : cache[i].last_account_update_at < instant

\* the results of the submissions of chunk k, in order
RECURSIVE ResultsOf(_, _)
ResultsOf(log, k) ==
    IF log = <<>> THEN <<>>
    ELSE (IF Head(log).chunk = k THEN <<Head(log).result>> ELSE <<>>)
             \o ResultsOf(Tail(log), k)

\* the retry loop of chunk k has been left
Left(k) == k < chunk \/ (k = chunk /\ relayer_task \in {"build", "collect"})

AllTimeout(results) == \A i \in DOMAIN results : results[i] = "Timeout"

\* C17: a chunk is submitted at most 3 times, always as the transaction built
\* for it; a chunk whose submissions all timed out is given up after exactly 3
\* submissions (1 initial and 2 retries).
C17_TwoRetries ==
    \A k \in DOMAIN built :
        LET results == ResultsOf(sent, k) IN
        /\ Len(results) <= 3
        /\ \A e \in DOMAIN sent : sent[e].chunk = k => sent[e].tx = built[k]
        /\ (Left(k) /\ AllTimeout(results)) => Len(results) = 3

\* what the loop does: `retries == 2` is tested before the submission, so a
\* chunk is given up after 2 timed-out submissions, and a Success on the first
\* or the second is the last submission of its chunk
C17_AsCoded ==
    \A k \in DOMAIN built :
        LET results == ResultsOf(sent, k) IN
        /\ Len(results) <= RetriesLimit
        /\ (Left(k) /\ AllTimeout(results)) => Len(results) = RetriesLimit
        /\ \A i \in DOMAIN results : results[i] # "Timeout" => i = Len(results)

\* a chunk given up after two timed-out submissions, the next one being built
C17_Witness ==
    /\ Len(sent) = 2
    /\ AllTimeout(ResultsOf(sent, 1))
    /\ Len(ResultsOf(sent, 1)) = 2
    /\ chunk = 1
    /\ relayer_task = "build"
    /\ \A i \in DOMAIN cache : cache[i].last_account_update_at < instant

\* update_frequency_secs / 30 rounded down
Capacity(c) ==
    CHOOSE q \in 0..c.update_frequency_secs :
        30 * q <= c.update_frequency_secs /\ c.update_frequency_secs < 30 * (q + 1)

\* the last n elements of a sequence
Latest(seq, n) == SubSeq(seq, Len(seq) - n + 1, Len(seq))

\* C18: each market's snapshot sequence is never longer than its capacity,
\* update_frequency_secs / 30 rounded down, and is the most recent
\* min(n, capacity) of the n rates inserted for it, oldest first.
C18_SnapshotsFifo ==
    \A i \in DOMAIN cache :
        LET snapshots == cache[i].funding_snapshots
            n == Len(inserted[i])
            kept == IF n < Capacity(cache[i]) THEN n ELSE Capacity(cache[i])
        IN  /\ Len(snapshots) <= Capacity(cache[i])
            /\ snapshots = Latest(inserted[i], kept)

\* a market with room for two snapshots after -3, 2 and 2 were inserted
C18_Witness ==
    \E i \in DOMAIN cache :
        /\ cache[i].update_frequency_secs = 60
        /\ inserted[i] = <<-3, 2, 2>>
        /\ cache[i].funding_snapshots = <<2, 2>>

RECURSIVE SumOf(_)
SumOf(seq) == IF seq = <<>> THEN 0 ELSE Head(seq) + SumOf(Tail(seq))

\* the entry has waited its update_frequency_secs and its ring is full
DueAndFull(c) ==
    /\ instant - c.last_account_update_at >= c.update_frequency_secs
    /\ Len(c.funding_snapshots) = Capacity(c)

\* what a read of the cache under the lock yields now
Collected(checks) == collect_instructions(cache, instant, 1, <<>>, checks)

\* the instructions of r are those of the entries due and full, each carrying
\* the mean of the entry's snapshots rounded toward zero
EmitsDueAndFull(r) ==
    /\ r.ok
    /\ \A i \in DOMAIN cache :
          LET for_market == {j \in DOMAIN r.ixs : r.ixs[j].market = cache[i].market}
          IN  /\ (for_market # {}) <=> DueAndFull(cache[i])
              /\ \A j \in for_market :
                    r.ixs[j].data_point
                        = Quotient(SumOf(cache[i].funding_snapshots),
                                   Capacity(cache[i]))

\* C19: reading the cache in a publish cycle emits an Update instruction for a
\* market exactly when update_frequency_secs have elapsed since its
\* last_account_update_at and its snapshot sequence is full, and the value
\* emitted is the sum of the snapshots held divided by the capacity.
C19_EmittedWhenDue == \A checks \in BOOLEAN : EmitsDueAndFull(Collected(checks))

\* the same for caches whose rings all hold at least one snapshot
C19_WithinRange ==
    (\A i \in DOMAIN cache : Capacity(cache[i]) >= 1) =>
        \A checks \in BOOLEAN : EmitsDueAndFull(Collected(checks))

\* a market with update_frequency_secs = 29, hence a ring of 0 snapshots that
\* is full while empty, is due: the read divides by zero
C19_Witness ==
    /\ Alive
    /\ relayer_task = "collect"
    /\ \E i \in DOMAIN cache :
          /\ cache[i].update_frequency_secs = 29
          /\ cache[i].funding_snapshots = <<>>
          /\ DueAndFull(cache[i])
    /\ ~Collected(TRUE).ok
    /\ ~Collected(FALSE).ok

\* a market with snapshots -3 and 2 is due: the mean emitted is 0, not -1
C19_WitnessWithinRange ==
    /\ \A i \in DOMAIN cache : Capacity(cache[i]) >= 1
    /\ \E i \in DOMAIN cache :
          /\ cache[i].funding_snapshots = <<-3, 2>>
          /\ DueAndFull(cache[i])
          /\ \E j \in DOMAIN Collected(TRUE).ixs :
                Collected(TRUE).ixs[j]
                    = [market |-> cache[i].market, data_point |-> 0]
    /\ \E i \in DOMAIN cache : ~DueAndFull(cache[i])

\* what the venue state can yield for the markets of the cache in one cycle
CycleComputations == [DOMAIN cache -> Computations]

SomeFails(computations) == \E i \in DOMAIN cache : ~computations[i].ok

\* the cycle r of these computations ran to its end, left the entries whose
\* computation failed as they were, and gave every other entry its rate
FailuresSkipped(r, computations) ==
    /\ r.ok
    /\ \A i \in DOMAIN cache :
          IF ~computations[i].ok
          THEN r.cache[i] = cache[i]
          ELSE LET all == Append(cache[i].funding_snapshots,
                                 computations[i].funding_rate)
                   kept == IF Len(all) < Capacity(cache[i])
                           THEN Len(all) ELSE Capacity(cache[i])
               IN  r.cache[i] = [cache[i] EXCEPT !.funding_snapshots =
                                                     Latest(all, kept)]

\* C20: in a snapshot cycle in which the computation or a lookup fails for a
\* market, the snapshot sequence of that market is left as it was, every other
\* market gets its rate in the same cycle, and the task goes on to its next
\* cycle.
C20_FailureIsolated ==
    \A computations \in CycleComputations :
        SomeFails(computations) =>
            FailuresSkipped(snapshot_cycle(cache, inserted, computations, 1),
                            computations)

\* the same for caches whose rings all hold at least one snapshot
C20_WithinRange ==
    (\A i \in DOMAIN cache : Capacity(cache[i]) >= 1) =>
        \A computations \in CycleComputations :
            SomeFails(computations) =>
                FailuresSkipped(snapshot_cycle(cache, inserted, computations, 1),
                                computations)

\* the lookup fails for the first market, whose ring holds a snapshot, and the
\* second market, with update_frequency_secs = 29, gets a rate: the insertion
\* into its ring of 0 snapshots panics
C20_Witness ==
    /\ Alive
    /\ Len(cache) = 2
    /\ cache[1].funding_snapshots = <<2>>
    /\ cache[2].update_frequency_secs = 29
    /\ LET computations == <<NotComputed("lookup"), Computed(-3)>>
           r == snapshot_cycle(cache, inserted, computations, 1)
       IN  /\ ~r.ok
           /\ r.cache = cache

\* the computation fails for the second market, whose ring is full, and the
\* first gets a rate
C20_WitnessWithinRange ==
    /\ Alive
    /\ Len(cache) = 2
    /\ \A i \in DOMAIN cache : Capacity(cache[i]) >= 1
    /\ cache[1].funding_snapshots = <<2>>
    /\ cache[2].funding_snapshots = <<-3, 2>>
    /\ LET computations == <<Computed(-3), NotComputed("calculate")>>
           r == snapshot_cycle(cache, inserted, computations, 1)
       IN  /\ r.ok
           /\ r.cache[1].funding_snapshots = <<-3>>
           /\ r.cache[2] = cache[2]

\* ------------------------------------------- the program's claims, continued

\* a Configure that supplies the count the record already has
SameCount(c) ==
    /\ is_some(c.data_points_count)
    /\ c.data_points_count.val = fixed.config.data_points_count

\* C30: an accepted Configure whose data_points_count equals the current count
\* leaves funding_ema, last_updated_ts, every data point, the account's size and
\* all lamports as they were.
C30_SameCountKeeps ==
    \A i \in ConfigureInputs, checks \in BOOLEAN :
        LET r == configure_funding_account(Chain, i.m, i.c, checks) IN
        (r.err = "Ok" /\ SameCount(i.c)) =>
            /\ r.st.fixed.funding_ema = fixed.funding_ema
            /\ r.st.fixed.last_updated_ts = fixed.last_updated_ts
            /\ r.st.dynamic = dynamic
            /\ r.st.data_len = data_len
            /\ r.st.lamports = lamports

\* what such a Configure keeps: all of the above but funding_ema, which it
\* sets to None
C30_AllButEma ==
    \A i \in ConfigureInputs, checks \in BOOLEAN :
        LET r == configure_funding_account(Chain, i.m, i.c, checks) IN
        (r.err = "Ok" /\ SameCount(i.c)) =>
            /\ is_none(r.st.fixed.funding_ema)
            /\ r.st.fixed.last_updated_ts = fixed.last_updated_ts
            /\ r.st.dynamic = dynamic
            /\ r.st.data_len = data_len
            /\ r.st.lamports = lamports

\* a record with a full ring and an average whose authority supplies the count
\* it has: the average is gone
C30_Witness ==
    /\ Live
    /\ Full(dynamic)
    /\ is_some(fixed.funding_ema)
    /\ LET r == configure_funding_account(
                    Chain, GoodMeta(fixed.authority),
                    ConfigureArgs(None, None, None,
                                  Some(fixed.config.data_points_count)), TRUE)
       IN  /\ r.err = "Ok"
           /\ is_none(r.st.fixed.funding_ema)
           /\ r.st.dynamic = dynamic

\* ---------------------------------------------------------------------
\* the funding client's claims, continued
\* ---------------------------------------------------------------------

ServiceShutdownUnexpectedly == "ServiceShutdownUnexpectedly"

\* the errors the publish task returns through `?`
PublishErrors == {"TransactionErrorClient", "RpcError"}

\* C21 as stated: whichever way a relayer task ends, the error the funding
\* client reports is ServiceShutdownUnexpectedly
C21_AlwaysUnexpectedly ==
    exit # "Running" => exit = ServiceShutdownUnexpectedly

\* C21: once a relayer task has ended the funding client shuts down; it
\* reports ServiceShutdownUnexpectedly when the task panicked, and the
\* task's own error when the task returned one
C21_TaskErrorReported ==
    /\ (~Alive /\ exit = "Running") => ENABLED Shutdown
    /\ exit # "Running" =>
          /\ ~Alive
          /\ "panicked" \in {snapshot_task, relayer_task}
                => exit = ServiceShutdownUnexpectedly
          /\ snapshot_task = "ended" => exit \in RefreshErrors
          /\ relayer_task = "ended" => exit \in PublishErrors

C21_Witness ==
    /\ snapshot_task = "ended"
    /\ exit = "RpcError"

C21_WitnessPanicked ==
    /\ "panicked" \in {snapshot_task, relayer_task}
    /\ exit = ServiceShutdownUnexpectedly

\* C27: a failed refresh of the venue state at the start of a snapshot cycle
\* aborts that cycle only: the snapshot task is not ended by it (the task
\* has no other way to return)
C27_RefreshFailureSurvived == snapshot_task # "ended"

\* C28: a market whose update_frequency_secs is below the snapshot interval
\* has capacity 0, no update_funding_account is ever collected for it, and
\* neither task stops running its cycles on its account
C28_NoUpdateBelowInterval ==
    \A i \in DOMAIN cache :
        cache[i].update_frequency_secs < SNAPSHOT_TIMEOUT_SECS =>
            /\ cache_funding_rates(cache[i]) = 0
            /\ cache[i].market \notin MarketsOf(markets_with_instructions)
            /\ "panicked" \notin {snapshot_task, relayer_task}

\* a step of the publish task: it moved on, or a submission came back
PublishStep == Submitted \/ relayer_task' # relayer_task

U8Bits == 3
U8Max == Pow2(U8Bits) - 1

\* the submissions of one call that are followed
MaxAttempts == 18

\* `retries += 1`: past u8::MAX a build with overflow checks panics, and a
\* build without them wraps to 0
increment_u8(x, checks) ==
    IF x + 1 > U8Max THEN [ok |-> ~checks, v |-> 0] ELSE [ok |-> TRUE, v |-> x + 1]

\* the test at the top of the loop: build and sign again before this attempt
rebuilds(retries_now) == retries_now % 2 = 0 /\ retries_now > 0

\* the call at its first build_signed_transaction; tx counts the
\* transactions signed, attempts are the submissions that came back
ForceSendCalled(checks) ==
    [pc |-> "build", retries |-> 0, tx |-> 0, attempts |-> <<>>, checks |-> checks]

\* build_signed_transaction, before the loop and at its top; ok: it returned Ok
ForceSendBuild ==
    /\ force_send.pc = "build"
    /\ \E ok \in BOOLEAN :
          force_send' =
              IF ok THEN [force_send EXCEPT !.pc = "send", !.tx = @ + 1]
              ELSE [force_send EXCEPT !.pc = "TransactionErrorClient"]
    /\ UNCHANGED <<program_vars, relayer_vars, call, websocket_vars>>

\* send_and_confirm_transaction and the match on its result; "RpcError": it
\* returned Err
ForceSendSend ==
    /\ force_send.pc = "send"
    /\ Len(force_send.attempts) < MaxAttempts
    /\ \E result \in {"Timeout", "Error", "Success", "RpcError"} :
          LET attempt == [tx |-> force_send.tx, retries |-> force_send.retries,
                          result |-> result]
              next == increment_u8(force_send.retries, force_send.checks)
          IN  force_send' =
                  CASE result = "RpcError" -> [force_send EXCEPT !.pc = "RpcError"]
                    [] result = "Error" ->
                        [force_send EXCEPT !.pc = "TransactionError",
                                           !.attempts = Append(@, attempt)]
                    [] result = "Success" ->
                        [force_send EXCEPT !.pc = "Ok",
                                           !.attempts = Append(@, attempt)]
                    [] result = "Timeout" ->
                        [force_send EXCEPT
                            !.pc = IF ~next.ok THEN "panicked"
                                   ELSE IF rebuilds(next.v) THEN "build" ELSE "send",
                            !.retries = IF next.ok THEN next.v ELSE @,
                            !.attempts = Append(@, attempt)]
    /\ UNCHANGED <<program_vars, relayer_vars, call, websocket_vars>>

InitForceSend ==
    /\ Unallocated
    /\ NotSpawned
    /\ NotStarted
    /\ call = [fn |-> "NotCalled"]
    /\ \E checks \in BOOLEAN : force_send = ForceSendCalled(checks)

NextForceSend == ForceSendBuild \/ ForceSendSend

SpecForceSend == InitForceSend /\ [][NextForceSend]_vars

\* the submissions of the signed transaction t
SubmissionsOf(t) ==
    {i \in DOMAIN force_send.attempts : force_send.attempts[i].tx = t}

\* C29: force_send_transaction returns Ok at its first Success and
\* TransactionError at its first Error, a Timeout never ends it; it signs a
\* new transaction exactly before the attempts whose retry counter is even
\* and at least 2, and submits no signed transaction more than twice
C29_ResendsUntilSettled ==
    LET attempts == force_send.attempts IN
    /\ force_send.pc # "panicked"
    /\ \A i \in DOMAIN attempts :
          /\ attempts[i].result \in {"Success", "Error"} =>
                /\ i = Len(attempts)
                /\ force_send.pc = IF attempts[i].result = "Success"
                                   THEN "Ok" ELSE "TransactionError"
          /\ i > 1 =>
                (attempts[i].tx # attempts[i - 1].tx <=>
                    (attempts[i].retries % 2 = 0 /\ attempts[i].retries >= 2))
    /\ \A t \in 1..force_send.tx : Cardinality(SubmissionsOf(t)) <= 2

\* the same, for the calls that have seen at most u8::MAX timeouts
C29_WithinRange ==
    Len(force_send.attempts) <= U8Max => C29_ResendsUntilSettled

C29_WitnessWithinRange ==
    /\ force_send.pc = "Ok"
    /\ Len(force_send.attempts) = 5
    /\ force_send.tx = 3

\* ---------------------------------------------------------------------
\* the order book of venue M (src/third-party/mango/src)
\* ---------------------------------------------------------------------

\* a LeafNode; its key is price_data in the upper 64 bits and seq in the lower
LeafNode(price_data, seq, quantity, timestamp, time_in_force, peg_limit) ==
    [price_data |-> price_data, seq |-> seq, quantity |-> quantity,
     timestamp |-> timestamp, time_in_force |-> time_in_force,
     peg_limit |-> peg_limit]

\* `<` on the u128 keys
key_less(a, b) == a[1] < b[1] \/ (a[1] = b[1] /\ a[2] < b[2])

is_expired(node, now_ts) ==
    node.time_in_force > 0 /\ now_ts >= node.timestamp + node.time_in_force

is_price_better(side, lhs, rhs) == IF side = "Bid" THEN lhs > rhs ELSE lhs < rhs

\* price_data.wrapping_sub(u64::MAX / 2 + 1) as i64
oracle_pegged_price_offset(price_data) ==
    AsI64((price_data - (U64Max \div 2 + 1)) % Pow2(I64Bits))

saturating_add(a, b) ==
    IF a + b > I64Max THEN I64Max ELSE IF a + b < I64Min THEN I64Min ELSE a + b

\* the state and the current price of an oracle pegged order
oracle_pegged_price(oracle_price_lots, node, side) ==
    LET price == saturating_add(oracle_price_lots,
                                oracle_pegged_price_offset(node.price_data))
    IN  IF 1 <= price /\ price < I64Max
        THEN IF node.peg_limit # -1 /\ is_price_better(side, price, node.peg_limit)
             THEN [state |-> "Invalid", price |-> price]
             ELSE [state |-> "Valid", price |-> price]
        ELSE [state |-> "Skipped", price |-> IF price > 1 THEN price ELSE 1]

\* the key of a pegged order with the price data of its current price
key_for_fixed_price(node, price_lots) == <<price_lots, node.seq>>

fixed_to_result(handle, node, now_ts) ==
    [order_tree |-> "Fixed", handle |-> handle, node |-> node,
     price_lots |-> AsI64(node.price_data),
     state |-> IF is_expired(node, now_ts) THEN "Invalid" ELSE "Valid"]

oracle_pegged_to_result(handle, node, price_lots, state, now_ts) ==
    [order_tree |-> "OraclePegged", handle |-> handle, node |-> node,
     price_lots |-> price_lots,
     state |-> IF is_expired(node, now_ts) THEN "Invalid" ELSE state]

\* An order tree is the sequence of its leaves by ascending key, a handle is
\* a leaf's place in it, 0 is no leaf. OrderTreeIter walks asks low-to-high
\* and bids high-to-low.
OrderTreeIter(tree, side) ==
    IF Len(tree) = 0 THEN 0 ELSE IF side = "Ask" THEN 1 ELSE Len(tree)

\* the leaf after next_leaf; OrderTreeIter::next returns next_leaf itself
order_tree_next(tree, side, next_leaf) ==
    IF next_leaf = 0 THEN 0
    ELSE IF side = "Ask" THEN (IF next_leaf = Len(tree) THEN 0 ELSE next_leaf + 1)
    ELSE next_leaf - 1

\* the fixed and the oracle pegged order that are next, ranked: the one that
\* matches first (the other one if return_worse)
rank_orders(side, book, f_peek, o_peek, return_worse, now_ts, oracle_price_lots) ==
    LET f == book.fixed[f_peek]
        o == book.oracle_pegged[o_peek]
        p == oracle_pegged_price(oracle_price_lots, o, side)
        fixed_key == <<f.price_data, f.seq>>
        pegged_key == key_for_fixed_price(o, p.price)
        is_better == IF side = "Bid" THEN key_less(pegged_key, fixed_key)
                     ELSE key_less(fixed_key, pegged_key)
    IN  IF f_peek # 0 /\ o_peek # 0
        THEN IF is_better # return_worse
             THEN Some(fixed_to_result(f_peek, f, now_ts))
             ELSE Some(oracle_pegged_to_result(o_peek, o, p.price, p.state, now_ts))
        ELSE IF o_peek # 0
        THEN Some(oracle_pegged_to_result(o_peek, o, p.price, p.state, now_ts))
        ELSE IF f_peek # 0 THEN Some(fixed_to_result(f_peek, f, now_ts))
        ELSE None

\* the loop at the head of BookSideIter::next over the pegged orders that
\* are Skipped: o_peek is the order looked at, next_leaf where the pegged
\* iterator stands
RECURSIVE skip_pegged(_, _, _, _)
skip_pegged(book, oracle_price_lots, o_peek, next_leaf) ==
    IF o_peek = 0 THEN [o_peek |-> 0, next_leaf |-> next_leaf]
    ELSE IF oracle_pegged_price(oracle_price_lots, book.oracle_pegged[o_peek],
                                book.side).state # "Skipped"
    THEN [o_peek |-> o_peek, next_leaf |-> next_leaf]
    ELSE skip_pegged(book, oracle_price_lots, next_leaf,
                     order_tree_next(book.oracle_pegged, book.side, next_leaf))

BookSideIter(book) ==
    [fixed_iter |-> OrderTreeIter(book.fixed, book.side),
     oracle_pegged_iter |-> OrderTreeIter(book.oracle_pegged, book.side)]

\* BookSideIter::next: the item it returns and the iterator it leaves
BookSideIter_next(book, iter, now_ts, oracle_price_lots) ==
    LET skipped == skip_pegged(book, oracle_price_lots, iter.oracle_pegged_iter,
                               iter.oracle_pegged_iter)
        better == rank_orders(book.side, book, iter.fixed_iter, skipped.o_peek,
                              FALSE, now_ts, oracle_price_lots)
    IN  IF is_none(better)
        THEN [item |-> None,
              iter |-> [iter EXCEPT !.oracle_pegged_iter = skipped.next_leaf]]
        ELSE IF better.val.order_tree = "Fixed"
        THEN [item |-> better,
              iter |-> [fixed_iter |-> order_tree_next(book.fixed, book.side,
                                                       iter.fixed_iter),
                        oracle_pegged_iter |-> skipped.next_leaf]]
        ELSE [item |-> better,
              iter |-> [fixed_iter |-> iter.fixed_iter,
                        oracle_pegged_iter |->
                            order_tree_next(book.oracle_pegged, book.side,
                                            skipped.next_leaf)]]

\* the loop of impact_price over the items that are Valid
RECURSIVE impact_walk(_, _, _, _, _, _)
impact_walk(book, iter, now_ts, oracle_price_lots, sum, quantity) ==
    LET n == BookSideIter_next(book, iter, now_ts, oracle_price_lots) IN
    IF is_none(n.item) THEN None
    ELSE IF n.item.val.state # "Valid"
    THEN impact_walk(book, n.iter, now_ts, oracle_price_lots, sum, quantity)
    ELSE IF sum + n.item.val.node.quantity >= quantity THEN Some(n.item.val.price_lots)
    ELSE impact_walk(book, n.iter, now_ts, oracle_price_lots,
                     sum + n.item.val.node.quantity, quantity)

impact_price(book, quantity, now_ts, oracle_price_lots) ==
    impact_walk(book, BookSideIter(book), now_ts, oracle_price_lots, 0, quantity)

\* ---------------------------------------------------------------------
\* the funding rate of venue M (PerpMarket::calculate_funding_rate)
\* ---------------------------------------------------------------------

\* An I80F48 is the integer of its bits; FracBits of them are fractional (48
\* in the source). RatePrecision stands for the 100000000 of the source.
FracBits == 4
RatePrecision == 100

I80F48_ONE == Pow2(FracBits)

FloorDiv(a, b) == IF b > 0 THEN a \div b ELSE (-a) \div (-b)

\* I80F48::from_num of an integer, and to_num into an integer, which
\* discards the fraction: it rounds toward minus infinity
from_num(n) == n * I80F48_ONE
to_num(bits) == FloorDiv(bits, I80F48_ONE)

\* `/` of two I80F48 (the divisor is not 0); the crate rounds the quotient
\* toward zero or toward minus infinity: rounding is one of the two
I80F48_div(a, b, rounding) ==
    IF rounding = "floor" THEN FloorDiv(a * I80F48_ONE, b)
    ELSE TruncDiv(a * I80F48_ONE, b)

\* checked_mul of two I80F48 (no overflow at the sizes of the model)
I80F48_mul(a, b) == FloorDiv(a * b, I80F48_ONE)

\* native price * base lot size / quote lot size, as lots
mango_native_price_to_lot(market, price, rounding) ==
    to_num(I80F48_div(I80F48_mul(price, from_num(market.base_lot_size)),
                      from_num(market.quote_lot_size), rounding))

\* lots * quote lot size / base lot size, as a native price
lot_to_mango_native(market, price, rounding) ==
    I80F48_div(I80F48_mul(from_num(price), from_num(market.quote_lot_size)),
               from_num(market.base_lot_size), rounding)

\* a clamp that lets every value through
clamp_not_at_all(x, min, max) == x

\* Ord::clamp (min <= max)
clamp(x, min, max) == IF x < min THEN min ELSE IF x > max THEN max ELSE x

\* `funding_rate * 100000000 * 365` and to_num
annualized(funding_rate) == to_num(funding_rate * RatePrecision * 365)

\* the match of calculate_funding_rate on the two impact prices: Ok(fr), or
\* a panic in the arithmetic
funding_rate_of_impact_prices(market, bid, ask, oracle_price, rounding, checks) ==
    LET sum == I64Arith(bid.val + ask.val, checks)
        mid_price == TruncDiv(sum.v, 2)
        book_price == lot_to_mango_native(market, mid_price, rounding)
        diff == I80F48_div(book_price, oracle_price, rounding) - I80F48_ONE
    IN  IF ~is_none(bid) /\ ~is_none(ask)
        THEN IF ~sum.ok \/ oracle_price = 0 THEN [outcome |-> "panicked", fr |-> 0]
             ELSE [outcome |-> "Ok",
                   fr |-> annualized(clamp(diff, market.min_funding, market.max_funding))]
        ELSE IF ~is_none(bid) THEN [outcome |-> "Ok", fr |-> annualized(market.max_funding)]
        ELSE IF ~is_none(ask) THEN [outcome |-> "Ok", fr |-> annualized(market.min_funding)]
        ELSE [outcome |-> "Ok", fr |-> 0]

\* PerpMarket::calculate_funding_rate: the impact prices of the two sides at
\* the oracle price in lots, and the match on them
mango_calculate_funding_rate(market, bids, asks, oracle_price, now_ts, rounding, checks) ==
    funding_rate_of_impact_prices(
        market,
        impact_price(bids, market.impact_quantity, now_ts,
                     mango_native_price_to_lot(market, oracle_price, rounding)),
        impact_price(asks, market.impact_quantity, now_ts,
                     mango_native_price_to_lot(market, oracle_price, rounding)),
        oracle_price, rounding, checks)

\* a pegged leaf by its offset from the oracle price
Pegged(offset, seq, quantity, timestamp, time_in_force, peg_limit) ==
    LeafNode(offset + U64Max \div 2 + 1, seq, quantity, timestamp, time_in_force,
             peg_limit)

\* the orders the books are made of, by ascending key; sequence numbers are
\* unique in a book side; the second of each tree expires at 1
FixedLeaves ==
    <<LeafNode(2, 1, 1, 0, 0, -1), LeafNode(4, 3, 2, 0, 1, -1),
      LeafNode(6, 5, 3, 0, 0, -1)>>

PeggedLeaves ==
    <<Pegged(-5, 2, 2, 0, 0, -1), Pegged(-1, 4, 1, 0, 1, -1),
      Pegged(2, 6, 2, 0, 0, 10), Pegged(4, 7, 1, 0, 0, -1),
      Pegged(I64Max, 8, 1, 0, 0, -1)>>

OraclePriceLots == {3, 8}
NowTs == {0, 1}
ImpactQuantities == 1..4

\* the leaves of a tree that holds the chosen ones
RECURSIVE Pick(_, _, _)
Pick(leaves, chosen, i) ==
    IF i > Len(leaves) THEN <<>>
    ELSE (IF i \in chosen THEN <<leaves[i]>> ELSE <<>>) \o Pick(leaves, chosen, i + 1)

BookSides ==
    {[side |-> sd, fixed |-> Pick(FixedLeaves, f, 1),
      oracle_pegged |-> Pick(PeggedLeaves, o, 1)] :
        sd \in {"Bid", "Ask"}, f \in SUBSET DOMAIN FixedLeaves,
        o \in SUBSET DOMAIN PeggedLeaves}

\* a walk of the merged iterator over a book side, at its start
Walk(book, now_ts, oracle_price_lots) ==
    [fn |-> "BookSideIter", book |-> book, now_ts |-> now_ts,
     oracle_price_lots |-> oracle_price_lots, iter |-> BookSideIter(book),
     yielded |-> <<>>, done |-> FALSE]

\* a call of impact_price before it returns
Probe(book, quantity, now_ts, oracle_price_lots) ==
    [fn |-> "impact_price", book |-> book, now_ts |-> now_ts,
     oracle_price_lots |-> oracle_price_lots, quantity |-> quantity,
     returned |-> FALSE, price |-> None]

\* one call of BookSideIter::next
BookSideNext ==
    /\ call.fn = "BookSideIter"
    /\ ~call.done
    /\ LET n == BookSideIter_next(call.book, call.iter, call.now_ts,
                                  call.oracle_price_lots)
       IN  call' = IF is_none(n.item)
                   THEN [call EXCEPT !.iter = n.iter, !.done = TRUE]
                   ELSE [call EXCEPT !.iter = n.iter,
                                     !.yielded = Append(@, n.item.val)]
    /\ UNCHANGED <<program_vars, relayer_vars, force_send, websocket_vars>>

ImpactPrice ==
    /\ call.fn = "impact_price"
    /\ ~call.returned
    /\ call' = [call EXCEPT
                   !.returned = TRUE,
                   !.price = impact_price(call.book, call.quantity, call.now_ts,
                                          call.oracle_price_lots)]
    /\ UNCHANGED <<program_vars, relayer_vars, force_send, websocket_vars>>

\* the markets, books and oracle prices the funding rate is computed for:
\* min_funding <= max_funding; the oracle price is an I80F48
FundingLimits == {<<-1, 1>>, <<-3, 24>>, <<-I80F48_ONE, I80F48_ONE>>}

PerpMarkets ==
    {[base_lot_size |-> 1, quote_lot_size |-> q, impact_quantity |-> iq,
      min_funding |-> l[1], max_funding |-> l[2]] :
        q \in {1, 2}, iq \in {1, 3}, l \in FundingLimits}

FundingBooks(side) ==
    {[side |-> side, fixed |-> Pick(FixedLeaves, f, 1),
      oracle_pegged |-> Pick(PeggedLeaves, o, 1)] :
        f \in {{}, {1}, {1, 2, 3}}, o \in {{}, {3, 4}}}

OraclePrices == {0, from_num(3), from_num(3) + 4, from_num(8)}

\* a call of calculate_funding_rate before it returns
FundingCall(market, bids, asks, oracle_price, now_ts) ==
    [fn |-> "calculate_funding_rate", market |-> market, bids |-> bids,
     asks |-> asks, oracle_price |-> oracle_price, now_ts |-> now_ts,
     returned |-> FALSE, outcome |-> "Pending", fr |-> 0, rounding |-> "Pending"]

CalculateFundingRate ==
    /\ call.fn = "calculate_funding_rate"
    /\ ~call.returned
    /\ \E rounding \in {"floor", "zero"}, checks \in BOOLEAN :
          LET r == mango_calculate_funding_rate(
                       call.market, call.bids, call.asks, call.oracle_price,
                       call.now_ts, rounding, checks)
          IN  call' = [call EXCEPT !.returned = TRUE, !.outcome = r.outcome,
                                   !.fr = r.fr, !.rounding = rounding]
    /\ UNCHANGED <<program_vars, relayer_vars, force_send, websocket_vars>>

InitBook ==
    /\ Unallocated
    /\ NotSpawned
    /\ NotStarted
    /\ force_send = [pc |-> "NotCalled"]
    /\ \E book \in BookSides, now_ts \in NowTs, oracle_price_lots \in OraclePriceLots :
          \/ call = Walk(book, now_ts, oracle_price_lots)
          \/ \E quantity \in ImpactQuantities :
                call = Probe(book, quantity, now_ts, oracle_price_lots)
          \/ /\ book \in FundingBooks("Bid")
             /\ oracle_price_lots = 3
             /\ \E market \in PerpMarkets, asks \in FundingBooks("Ask"),
                   oracle_price \in OraclePrices :
                   call = FundingCall(market, book, asks, oracle_price, now_ts)

NextBook == BookSideNext \/ ImpactPrice \/ CalculateFundingRate

SpecBook == InitBook /\ [][NextBook]_vars

\* ---------------------------------------------------------------------
\* the order book's claims
\* ---------------------------------------------------------------------

\* a leaf of the book as the walk must present it
Presented(book, now_ts, oracle_price_lots) ==
    {fixed_to_result(h, book.fixed[h], now_ts) : h \in DOMAIN book.fixed}
    \cup
    {LET p == oracle_pegged_price(oracle_price_lots, book.oracle_pegged[h], book.side)
     IN  oracle_pegged_to_result(h, book.oracle_pegged[h], p.price, p.state, now_ts) :
        h \in {g \in DOMAIN book.oracle_pegged :
                  LET price == oracle_price_lots
                                 + oracle_pegged_price_offset(book.oracle_pegged[g].price_data)
                  IN  1 <= price /\ price < I64Max}}

Yielded == {call.yielded[i] : i \in DOMAIN call.yielded}

\* what is yielded is in price order, expired leaves are Invalid, and no
\* pegged leaf priced outside [1, i64::MAX] is among it
YieldedInOrder ==
    /\ \A i, j \in DOMAIN call.yielded :
          i < j => ~is_price_better(call.book.side, call.yielded[j].price_lots,
                                    call.yielded[i].price_lots)
    /\ \A i \in DOMAIN call.yielded :
          LET item == call.yielded[i]
              offset == oracle_pegged_price_offset(item.node.price_data)
          IN  /\ is_expired(item.node, call.now_ts) => item.state = "Invalid"
              /\ item.order_tree = "OraclePegged" =>
                    /\ 1 <= call.oracle_price_lots + offset
                    /\ call.oracle_price_lots + offset <= I64Max

\* C23: the merged iterator yields asks by non-decreasing and bids by
\* non-increasing price_lots; every expired leaf is yielded, with the state
\* Invalid; no pegged leaf priced outside [1, i64::MAX] is yielded
C23_MergedInOrder ==
    call.fn = "BookSideIter" =>
        /\ YieldedInOrder
        /\ call.done =>
              \A item \in Presented(call.book, call.now_ts, call.oracle_price_lots) :
                  is_expired(item.node, call.now_ts) =>
                      /\ item \in Yielded
                      /\ item.state = "Invalid"

\* C23, of the items that are yielded
C23_YieldedInOrder ==
    call.fn = "BookSideIter" => YieldedInOrder

C23_WitnessYieldedInOrder ==
    /\ call.fn = "BookSideIter"
    /\ call.done
    /\ call.book.side = "Ask"
    /\ Len(call.yielded) = 5
    /\ \E i, j \in DOMAIN call.yielded :
          /\ i < j
          /\ call.yielded[i].order_tree = "OraclePegged"
          /\ call.yielded[i].state = "Invalid"
          /\ is_expired(call.yielded[i].node, call.now_ts)
          /\ call.yielded[j].order_tree = "Fixed"
    /\ \E h \in DOMAIN call.book.oracle_pegged :
          oracle_pegged_price(call.oracle_price_lots, call.book.oracle_pegged[h],
                              "Ask").state = "Skipped"

\* the Valid orders of the book and the quantity of a set of them
ValidOrders(book, now_ts, oracle_price_lots) ==
    {item \in Presented(book, now_ts, oracle_price_lots) : item.state = "Valid"}

RECURSIVE QuantityOf(_)
QuantityOf(items) ==
    IF items = {} THEN 0
    ELSE LET item == CHOOSE x \in items : TRUE
         IN  item.node.quantity + QuantityOf(items \ {item})

\* the Valid orders that match before item
Ahead(item, items, side) ==
    {x \in items :
        IF side = "Bid"
        THEN key_less(<<item.price_lots, item.node.seq>>, <<x.price_lots, x.node.seq>>)
        ELSE key_less(<<x.price_lots, x.node.seq>>, <<item.price_lots, item.node.seq>>)}

\* C24: impact_price returns the price_lots of the first Valid order, best
\* first, at which the quantity of the Valid orders so far reaches quantity,
\* and None exactly when the Valid orders together hold less than quantity
C24_ImpactPrice ==
    (call.fn = "impact_price" /\ call.returned) =>
        LET valid == ValidOrders(call.book, call.now_ts, call.oracle_price_lots) IN
        /\ is_none(call.price) <=> QuantityOf(valid) < call.quantity
        /\ ~is_none(call.price) =>
              \E item \in valid :
                  /\ item.price_lots = call.price.val
                  /\ QuantityOf(Ahead(item, valid, call.book.side)) < call.quantity
                  /\ QuantityOf(Ahead(item, valid, call.book.side))
                         + item.node.quantity >= call.quantity

\* the impact prices the call computed
ImpactOf(book) ==
    impact_price(book, call.market.impact_quantity, call.now_ts,
                 mango_native_price_to_lot(call.market, call.oracle_price, call.rounding))

C22_WitnessClamped ==
    /\ call.fn = "calculate_funding_rate"
    /\ call.outcome = "Ok"
    /\ ~is_none(ImpactOf(call.bids))
    /\ ~is_none(ImpactOf(call.asks))
    /\ call.market.max_funding = 1
    /\ call.fr = FloorDiv(RatePrecision * 365, I80F48_ONE)

\* ---------------------------------------------------------------------
\* the funding rate of venue D (src/third-party/drift/src)
\* ---------------------------------------------------------------------

\* The precisions are scaled: 1_000_000 for PRICE_PRECISION, 1000 for
\* FUNDING_RATE_BUFFER and for AMM_TO_QUOTE_PRECISION_RATIO in the source.
\* safe_add, safe_sub, safe_mul and cast return Err past the width of their
\* type, which no value of the model comes near; safe_div returns Err on a
\* divisor of 0.
PRICE_PRECISION == 10
FUNDING_RATE_BUFFER == 100
AMM_TO_QUOTE_PRECISION_RATIO == 10
ONE_HOUR_I128 == 3600

\* AMM_RESERVE_PRECISION * FUNDING_RATE_PRECISION / PERCENTAGE_PRECISION
QUOTE_TO_BASE_AMT_FUNDING_PRECISION ==
    AMM_TO_QUOTE_PRECISION_RATIO * PRICE_PRECISION * FUNDING_RATE_BUFFER

calculate_fee_pool(amm) ==
    LET total_fee_minus_distributions_lower_bound == amm.total_exchange_fee \div 2 IN
    IF amm.total_fee_minus_distributions > total_fee_minus_distributions_lower_bound
    THEN amm.total_fee_minus_distributions - total_fee_minus_distributions_lower_bound
    ELSE 0

\* _calculate_funding_payment
calculate_funding_payment(funding_rate_delta, base_asset_amount) ==
    LET funding_rate_delta_sign == IF funding_rate_delta > 0 THEN 1 ELSE -1
        funding_rate_payment_magnitude ==
            ((Abs(funding_rate_delta) * Abs(base_asset_amount)) \div PRICE_PRECISION)
                \div FUNDING_RATE_BUFFER
        funding_rate_payment_sign == IF base_asset_amount > 0 THEN -1 ELSE 1
    IN  funding_rate_payment_magnitude * funding_rate_payment_sign
            * funding_rate_delta_sign

calculate_funding_payment_in_quote_precision(funding_rate_delta, base_asset_amount) ==
    TruncDiv(calculate_funding_payment(funding_rate_delta, base_asset_amount),
             AMM_TO_QUOTE_PRECISION_RATIO)

calculate_funding_rate_from_pnl_limit(pnl_limit, base_asset_amount) ==
    IF base_asset_amount = 0 THEN 0
    ELSE LET pnl_limit_biased == IF pnl_limit < 0 THEN pnl_limit + 1 ELSE pnl_limit
         IN  TruncDiv(pnl_limit_biased * QUOTE_TO_BASE_AMT_FUNDING_PRECISION,
                      base_asset_amount)

calculate_capped_funding_rate(amm, uncapped_funding_pnl, funding_rate) ==
    LET fee_pool == calculate_fee_pool(amm)
        funding_rate_pnl_limit == -TruncDiv(fee_pool, 3)
        capped_funding_pnl ==
            IF uncapped_funding_pnl > funding_rate_pnl_limit
            THEN uncapped_funding_pnl ELSE funding_rate_pnl_limit
        funding_payment_from_users ==
            calculate_funding_payment_in_quote_precision(
                funding_rate,
                IF funding_rate > 0 THEN amm.base_asset_amount_long
                ELSE amm.base_asset_amount_short)
        limit_with_users == funding_rate_pnl_limit - Abs(funding_payment_from_users)
    IN  [capped_funding_pnl |-> capped_funding_pnl,
         capped_funding_rate |->
             IF uncapped_funding_pnl < funding_rate_pnl_limit
             THEN IF funding_rate < 0
                  THEN calculate_funding_rate_from_pnl_limit(
                           limit_with_users, amm.base_asset_amount_long)
                  ELSE calculate_funding_rate_from_pnl_limit(
                           limit_with_users, amm.base_asset_amount_short)
             ELSE funding_rate]

calculate_funding_rate_long_short(amm, funding_rate) ==
    LET settled_net_market_position ==
            amm.base_asset_amount_with_amm + amm.base_asset_amount_with_unsettled_lp
        uncapped_funding_pnl ==
            -calculate_funding_payment_in_quote_precision(
                 funding_rate, settled_net_market_position)
        capped == calculate_capped_funding_rate(amm, uncapped_funding_pnl, funding_rate)
        new_total_fee_minus_distributions ==
            amm.total_fee_minus_distributions + capped.capped_funding_pnl
    IN  IF uncapped_funding_pnl >= 0
        THEN [ok |-> TRUE, funding_rate_long |-> funding_rate,
              funding_rate_short |-> funding_rate, capped |-> FALSE]
        ELSE IF /\ capped.capped_funding_pnl # 0
                /\ new_total_fee_minus_distributions < amm.total_exchange_fee \div 2
        THEN [ok |-> FALSE, funding_rate_long |-> 0, funding_rate_short |-> 0,
              capped |-> FALSE]
        ELSE [ok |-> TRUE,
              funding_rate_long |->
                  IF funding_rate < 0 THEN capped.capped_funding_rate ELSE funding_rate,
              funding_rate_short |->
                  IF funding_rate > 0 THEN capped.capped_funding_rate ELSE funding_rate,
              capped |-> capped.capped_funding_rate # funding_rate]

\* 24 hours over the funding period, which counts as an hour at least
period_adjustment(funding_period) ==
    (24 * ONE_HOUR_I128)
        \div (IF funding_period > ONE_HOUR_I128 THEN funding_period ELSE ONE_HOUR_I128)

\* a price spread passed on as it is
clamp_price_spread_not_at_all(price_spread, max_price_spread) == price_spread

\* max(-max_price_spread, min(price_spread, max_price_spread))
clamp_price_spread(price_spread, max_price_spread) ==
    LET least == IF price_spread < max_price_spread THEN price_spread
                 ELSE max_price_spread
    IN  IF -max_price_spread > least THEN -max_price_spread ELSE least

NoRate == [ok |-> FALSE, funding_rate |-> 0, funding_delta |-> 0, capped |-> FALSE, apr |-> 0]

\* PerpMarket::calculate_funding_rate from the two TWAPs on: oracle_price_twap
\* is what calculate_oracle_price_twap returned and mid_price_twap what
\* calculate_mark_twap returned
drift_calculate_funding_rate(amm, oracle_price_twap, mid_price_twap) ==
    LET price_spread == mid_price_twap - oracle_price_twap
        max_price_spread == TruncDiv(oracle_price_twap, 33)
        clamped_price_spread == clamp_price_spread(price_spread, max_price_spread)
        funding_rate ==
            TruncDiv(clamped_price_spread * FUNDING_RATE_BUFFER,
                     period_adjustment(amm.funding_period))
        long_short == calculate_funding_rate_long_short(amm, funding_rate)
        short_pays == mid_price_twap > oracle_price_twap
        funding_delta == IF short_pays THEN long_short.funding_rate_short
                         ELSE long_short.funding_rate_long
        funding_apr == Abs(TruncDiv(funding_delta * 1000, oracle_price_twap))
                           * 100 * 24 * 365
    IN  IF ~long_short.ok \/ oracle_price_twap = 0 THEN NoRate
        ELSE [ok |-> TRUE, funding_rate |-> funding_rate,
              funding_delta |-> funding_delta, capped |-> long_short.capped,
              apr |-> IF short_pays THEN funding_apr ELSE -funding_apr]

\* the markets of venue D the rate is computed for, as the accounts fetched
\* from the chain decode: the net position is the users' longs and shorts
\* added up, or it is off by skew
Amms ==
    {[funding_period |-> fp, base_asset_amount_long |-> l,
      base_asset_amount_short |-> sh,
      base_asset_amount_with_amm |-> l + sh - lp + skew,
      base_asset_amount_with_unsettled_lp |-> lp, total_exchange_fee |-> tef,
      total_fee_minus_distributions |-> tfmd] :
        fp \in {3600, 5400}, l \in {0, 2000, 6000}, sh \in {0, -2000, -6000},
        lp \in {0, 500}, skew \in {0, 4000, -4000}, tef \in {0, 60},
        tfmd \in {0, 3, 30, 60, 300}}

OraclePriceTwaps == {0, 660, 1000}
MarkTwapSpreads == {-100, -25, -3, 0, 3, 25, 100}

\* a call of calculate_funding_rate before it returns
RateCall(amm, oracle_price_twap, mid_price_twap) ==
    [fn |-> "drift::calculate_funding_rate", amm |-> amm,
     oracle_price_twap |-> oracle_price_twap, mid_price_twap |-> mid_price_twap,
     returned |-> FALSE, result |-> NoRate]

DriftCalculateFundingRate ==
    /\ call.fn = "drift::calculate_funding_rate"
    /\ ~call.returned
    /\ call' = [call EXCEPT
                   !.returned = TRUE,
                   !.result = drift_calculate_funding_rate(
                                  call.amm, call.oracle_price_twap, call.mid_price_twap)]
    /\ UNCHANGED <<program_vars, relayer_vars, force_send, websocket_vars>>

InitDrift ==
    /\ Unallocated
    /\ NotSpawned
    /\ NotStarted
    /\ force_send = [pc |-> "NotCalled"]
    /\ \E amm \in Amms, oracle_price_twap \in OraclePriceTwaps,
          spread \in MarkTwapSpreads :
          call = RateCall(amm, oracle_price_twap, oracle_price_twap + spread)

NextDrift == DriftCalculateFundingRate

SpecDrift == InitDrift /\ [][NextDrift]_vars

\* the APR of the largest clamped spread: s = oracle_twap / 33,
\* r = s * 1000 / period_adjustment (1000 is FUNDING_RATE_BUFFER)
LargestApr ==
    LET s == TruncDiv(call.oracle_price_twap, 33)
        r == TruncDiv(s * FUNDING_RATE_BUFFER, period_adjustment(call.amm.funding_period))
    IN  TruncDiv(r * 1000, call.oracle_price_twap) * 100 * 24 * 365

\* the open interest of the longs and of the shorts adds up to the net
\* position the rate is capped for
OpenInterestAdds(amm) ==
    /\ amm.base_asset_amount_long >= 0
    /\ amm.base_asset_amount_short <= 0
    /\ amm.base_asset_amount_long + amm.base_asset_amount_short
           = amm.base_asset_amount_with_amm + amm.base_asset_amount_with_unsettled_lp

AprBounded ==
    /\ Abs(call.result.apr) <= LargestApr
    /\ Abs(call.result.funding_delta) <= Abs(call.result.funding_rate)

\* C25: where calculate_funding_rate of venue D succeeds, the magnitude of
\* the APR is at most the APR of the largest clamped spread, and the capped
\* rate is never larger in magnitude than the clamped rate it caps
C25_AprBounded ==
    (call.fn = "drift::calculate_funding_rate" /\ call.result.ok) => AprBounded

\* C25, amended: the same for every market whose long and short open
\* interest adds up to its net position
C25_AprBoundedWhereInterestAdds ==
    (/\ call.fn = "drift::calculate_funding_rate"
     /\ call.result.ok
     /\ OpenInterestAdds(call.amm)) => AprBounded

\* the cap took effect and left a rate that is not 0
C25_Witness ==
    /\ call.fn = "drift::calculate_funding_rate"
    /\ call.result.ok
    /\ OpenInterestAdds(call.amm)
    /\ call.result.capped
    /\ call.result.funding_delta # 0
    /\ Abs(call.result.funding_delta) < Abs(call.result.funding_rate)
    /\ call.result.apr # 0

\* ---------------------------------------------------------------------
\* the funding program's claims, continued
\* ---------------------------------------------------------------------

\* C31: an accepted Update that leaves every slot of the ring occupied
\* leaves an average, the one of the ring under the record's period_length
C31_FullRingHasEma ==
    Live =>
        \A data_point \in DataPoints, checks \in BOOLEAN :
            LET r == UpdateByAuthority(data_point, checks) IN
            (r.err = "Ok" /\ Full(r.st.dynamic)) =>
                r.st.fixed.funding_ema
                    = Some(RefEma(r.st.dynamic, r.st.fixed.config.period_length))

\* C36: a record that has an average has every one of its data_points_count
\* slots occupied, two of them at least, after any sequence of Initialize,
\* Update, Configure and ConfigureAuthority; so a record with a None slot has
\* no average
C36_EmaImpliesFull ==
    (Live /\ is_some(fixed.funding_ema)) =>
        /\ Len(dynamic) = fixed.config.data_points_count
        /\ Full(dynamic)
        /\ Cardinality(Occupied(dynamic)) >= 2

\* a record with an average whose authority and configuration were changed
\* after the average was taken
C36_Witness ==
    /\ Live
    /\ is_some(fixed.funding_ema)
    /\ Full(dynamic)
    /\ fixed.config.data_points_count = 3
    /\ \E i \in ConfigureInputs, checks \in BOOLEAN :
          LET r == configure_funding_account(Chain, i.m, i.c, checks) IN
          /\ r.err = "Ok"
          /\ is_some(r.st.fixed.funding_ema)
          /\ r.st.fixed.config # fixed.config

\* the record an accepted Initialize leaves: no data point, no average
EmptyRecord(st) ==
    /\ st.owner = ProgramId
    /\ Len(st.dynamic) = st.fixed.config.data_points_count
    /\ Occupied(st.dynamic) = {}
    /\ is_none(st.fixed.funding_ema)
    /\ st.fixed.last_updated_ts = 0

\* the chain with wallet k holding the rent of another record, as after a
\* transfer to it from outside the program
Funded(st, k) == [st EXCEPT !.lamports = [@ EXCEPT ![k] = TotalLamports]]

\* C37: Initialize is accepted only while the address holds no record and
\* leaves an existing record as it is; while the address holds no record,
\* after a Close as before the first Initialize, every Update, Configure,
\* ConfigureAuthority and Close fails and changes nothing, and an accepted
\* Initialize yields an empty record
C37_Lifecycle ==
    /\ Live =>
          \A i \in InitializeInputs :
              \A st \in {Chain, Funded(Chain, i.m.signer)} :
                  LET r == initialize_funding_account(st, i.m, i.a) IN
                  r.err # "Ok" /\ r.st = st
    /\ ~Live =>
          /\ \A m \in Metas, data_point \in DataPoints, checks \in BOOLEAN :
                LET r == update_funding(Chain, m, data_point, now, checks) IN
                r.err # "Ok" /\ r.st = Chain
          /\ \A i \in ConfigureInputs, checks \in BOOLEAN :
                LET r == configure_funding_account(Chain, i.m, i.c, checks) IN
                r.err # "Ok" /\ r.st = Chain
          /\ \A m \in Metas, authority \in Keys :
                LET r == configure_funding_account_authority(Chain, m, authority) IN
                r.err # "Ok" /\ r.st = Chain
          /\ \A i \in CloseInputs :
                LET r == close_funding_account(Chain, i.m, i.receiver,
                                               i.receiver_writable) IN
                r.err # "Ok" /\ r.st = Chain
          /\ \A i \in InitializeInputs :
                LET r == initialize_funding_account(Chain, i.m, i.a) IN
                r.err = "Ok" => EmptyRecord(r.st)

\* a record was closed to the other wallet, and a new Initialize for the
\* address is accepted
C37_Witness ==
    /\ ~Live
    /\ data_len = 0
    /\ lamports[FundingAccount] = 0
    /\ lamports["k2"] > 0
    /\ \E i \in InitializeInputs :
          LET r == initialize_funding_account(Chain, i.m, i.a) IN
          r.err = "Ok" /\ EmptyRecord(r.st)

\* an accepted Configure to a smaller data_points_count
Shrinks(i, r) ==
    /\ r.err = "Ok"
    /\ is_some(i.c.data_points_count)
    /\ i.c.data_points_count.val < fixed.config.data_points_count

\* C40: after an accepted Configure that shrinks the ring, the authority's
\* Update at any time now > staleness_threshold_secs is accepted on the reset
\* path, the point in slot 0, however short the time since the last accepted
\* Update
C40_UpdateAfterShrink ==
    Live =>
        \A i \in ConfigureInputs, checks \in BOOLEAN :
            LET shrunk == configure_funding_account(Chain, i.m, i.c, checks) IN
            Shrinks(i, shrunk) =>
                \A t \in now..MaxTime, data_point \in DataPoints, build \in BOOLEAN :
                    LET r == update_funding(shrunk.st,
                                            GoodMeta(shrunk.st.fixed.authority),
                                            data_point, t, build)
                    IN  t > shrunk.st.fixed.config.staleness_threshold_secs =>
                            /\ r.err = "Ok"
                            /\ r.path = "reset"
                            /\ load_data_point(r.st.dynamic, 0) = Some(data_point)
                            /\ Occupied(r.st.dynamic) = {0}
                            /\ r.st.fixed.last_updated_ts = t

\* an Update was accepted this second on a record that takes one a second;
\* the next one is too soon, and accepted once the ring is shrunk
C40_Witness ==
    /\ Live
    /\ fixed.last_updated_ts = now
    /\ fixed.config.update_frequency_secs = 1
    /\ now > fixed.config.staleness_threshold_secs
    /\ UpdateByAuthority(2, TRUE).err = "UpdateTooSoon"
    /\ \E i \in ConfigureInputs :
          LET shrunk == configure_funding_account(Chain, i.m, i.c, TRUE) IN
          /\ Shrinks(i, shrunk)
          /\ update_funding(shrunk.st, GoodMeta(shrunk.st.fixed.authority), 2, now,
                            TRUE).path = "reset"

\* ------------------------------------------------- the websocket manager
\* src/bot/src/utils/websocket_client.rs: one task owns the socket; callers
\* reach it through the subscribe, unsubscribe and reconnect channels

\* bounds
MaxRequestId == 3
MaxSubscriptionId == 2
MaxNotifications == 2
MaxConnections == 2

\* the tasks that call subscribe(), once each
Callers == {"c1", "c2"}
SubscriptionIds == 1..MaxSubscriptionId
\* SubscribeParams, the program and its config left out
SubscribeParams == {"Slot", "Program"}

\* `HashMap::insert` and `HashMap::remove`
insert(map, key, value) ==
    [k \in DOMAIN map \cup {key} |-> IF k = key THEN value ELSE map[k]]
remove(map, key) == [k \in DOMAIN map \ {key} |-> map[k]]

\* a request as it goes over the socket
Request(id, method, params) == [id |-> id, method |-> method, params |-> params]

SubscribeMethod(params) == IF params = "Slot" THEN "slotSubscribe" ELSE "programSubscribe"
UnsubscribeMethod(params) == IF params = "Slot" THEN "slotUnsubscribe" ELSE "programUnsubscribe"
NotificationMethod(params) == IF params = "Slot" THEN "slotNotification" ELSE "programNotification"

\* the other method's name
notification_into_unsub_method_of_the_other_kind(method) ==
    IF method = "slotNotification" THEN "programUnsubscribe" ELSE "slotUnsubscribe"

\* the server sends no other notification; the code's `unreachable!()` is
\* not reached
notification_into_unsub_method(method) ==
    IF method = "slotNotification" THEN "slotUnsubscribe" ELSE "programUnsubscribe"

\* "id": 1 whatever the caller passes
build_unsubscribe_request(method, subscription_id) ==
    Request(1, method, <<subscription_id>>)

\* the request and its method; program_id and config stand as one parameter
build_subscribe_request_and_method(params, id) ==
    [req |-> Request(id, SubscribeMethod(params),
                     IF params = "Slot" THEN <<>> ELSE <<"program">>),
     method |-> SubscribeMethod(params)]

\* a caller of subscribe(): `connection` and `request` tell under which request
\* id of which connection the manager sent its request
Idle ==
    [status |-> "idle", params |-> "Slot", connection |-> 0, request |-> 0,
     subscription_id |-> 0, receiver |-> "none", received |-> <<>>]

\* the callers whose reply sender is dropped with the task: they wait in the
\* subscribe channel or in pending_subscriptions, and `recv()` yields None
dropped(subs) ==
    [c \in DOMAIN subs |->
        IF subs[c].status \in {"sent", "pending"}
        THEN [subs[c] EXCEPT !.status = "NotConnected"] ELSE subs[c]]

\* what a request was sent for: kept with the request on the socket
Sent(req, op, subscription_id, params) ==
    [req |-> req, op |-> op, subscription_id |-> subscription_id, params |-> params]

Spawned == manager_task.pc \in {"connect", "select"}
InLoop == manager_task.pc = "select"

\* the task returns Err(result) through a `?`
Returns(result) ==
    /\ manager_task' = [pc |-> "ended", result |-> result]
    /\ subscribers' = dropped(subscribers)
    /\ pending_subscriptions' = <<>>
    /\ active_subscriptions' = <<>>
    /\ pending_reconnect' = FALSE
    /\ UNCHANGED <<connection_status, request_id, socket, server, connections>>

\* `break` out of the inner loop, and the status written after it
Breaks ==
    /\ connection_status' = "Reconnecting"
    /\ manager_task' = [manager_task EXCEPT !.pc = "connect"]

\* subscribe(): NotConnected at once before the first connection and when the
\* channel has no receiver; otherwise the request waits in the channel
Subscribe(c, params) ==
    /\ manager_task.pc # "NotSpawned"
    /\ subscribers[c].status = "idle"
    /\ subscribers' =
           [subscribers EXCEPT ![c] =
               [@ EXCEPT !.params = params,
                         !.status = IF connection_status = "Disconnected" \/ ~Spawned
                                    THEN "NotConnected" ELSE "sent"]]
    /\ UNCHANGED <<connection_status, manager_task, request_id, pending_subscriptions,
                   pending_reconnect, active_subscriptions, socket, server, connections>>
    /\ UNCHANGED <<program_vars, relayer_vars, library_vars>>

\* the caller drops the stream it got
DropStream(c) ==
    /\ manager_task.pc # "NotSpawned"
    /\ subscribers[c].receiver = "open"
    /\ subscribers' = [subscribers EXCEPT ![c].receiver = "closed"]
    /\ UNCHANGED <<connection_status, manager_task, request_id, pending_subscriptions,
                   pending_reconnect, active_subscriptions, socket, server, connections>>
    /\ UNCHANGED <<program_vars, relayer_vars, library_vars>>

\* a connection that gives up the subscriptions left pending by the one
\* before: their callers get NotConnected
ConnectDroppingPending ==
    /\ manager_task.pc = "connect"
    /\ connections < MaxConnections
    /\ \E ok \in BOOLEAN :
          IF ~ok
          THEN Returns("ConnectionCouldNotBeEstablished")
          ELSE /\ connection_status' = "Connected"
               /\ request_id' = 1
               /\ pending_reconnect' = FALSE
               /\ active_subscriptions' = <<>>
               /\ socket' = <<>>
               /\ server' = [subscriptions |-> <<>>, answered |-> {}, notified |-> 0]
               /\ connections' = connections + 1
               /\ manager_task' = [manager_task EXCEPT !.pc = "select"]
               /\ pending_subscriptions' = <<>>
               /\ subscribers' = dropped(subscribers)
    /\ UNCHANGED <<program_vars, relayer_vars, library_vars>>

\* the head of the outer loop: connect_async; ok: it returned Ok
Connect ==
    /\ manager_task.pc = "connect"
    /\ connections < MaxConnections
    /\ \E ok \in BOOLEAN :
          IF ~ok
          THEN Returns("ConnectionCouldNotBeEstablished")
          ELSE /\ connection_status' = "Connected"
               /\ request_id' = 1
               /\ pending_reconnect' = FALSE
               /\ active_subscriptions' = <<>>
               /\ socket' = <<>>
               /\ server' = [subscriptions |-> <<>>, answered |-> {}, notified |-> 0]
               /\ connections' = connections + 1
               /\ manager_task' = [manager_task EXCEPT !.pc = "select"]
               /\ UNCHANGED <<pending_subscriptions, subscribers>>
    /\ UNCHANGED <<program_vars, relayer_vars, library_vars>>

\* the select arm of the reconnect channel: a close frame, then `break`;
\* ok: send and flush returned Ok
ManagerReconnect ==
    /\ InLoop
    /\ connections < MaxConnections
    /\ \E ok \in BOOLEAN :
          IF ~ok
          THEN Returns("ConnectionError")
          ELSE /\ pending_reconnect' = TRUE
               /\ Breaks
               /\ UNCHANGED <<request_id, pending_subscriptions, active_subscriptions,
                              subscribers, socket, server, connections>>
    /\ UNCHANGED <<program_vars, relayer_vars, library_vars>>

\* the select arm of the unsubscribe channel, for a subscription that is
\* active (for any other the caller is answered and nothing else happens)
ManagerUnsubscribe(subscription_id) ==
    /\ InLoop
    /\ subscription_id \in DOMAIN active_subscriptions
    /\ request_id <= MaxRequestId
    /\ \E ok \in BOOLEAN :
          IF ~ok
          THEN Returns("ConnectionError")
          ELSE LET method == active_subscriptions[subscription_id].method
                   req == build_unsubscribe_request(method, request_id)
               IN  /\ active_subscriptions' = remove(active_subscriptions, subscription_id)
                   /\ socket' = Append(socket,
                                       Sent(req, "unsubscribe", subscription_id,
                                            IF method = "slotSubscribe"
                                            THEN "Slot" ELSE "Program"))
                   /\ request_id' = request_id + 1
                   /\ UNCHANGED <<connection_status, manager_task, pending_subscriptions,
                                  pending_reconnect, subscribers, server, connections>>
    /\ UNCHANGED <<program_vars, relayer_vars, library_vars>>

\* the select arm of the subscribe channel, for the request of caller c; an
\* entry already under request_id is dropped by the insert, and its caller's
\* subscribe() returns NotConnected
ManagerSubscribe(c) ==
    /\ InLoop
    /\ subscribers[c].status = "sent"
    /\ request_id <= MaxRequestId
    /\ \E ok \in BOOLEAN :
          IF ~ok
          THEN Returns("ConnectionError")
          ELSE LET r == build_subscribe_request_and_method(subscribers[c].params, request_id)
                   displaced == {d \in Callers :
                                    /\ request_id \in DOMAIN pending_subscriptions
                                    /\ pending_subscriptions[request_id].caller = d}
               IN  /\ socket' = Append(socket,
                                       Sent(r.req, "subscribe", 0, subscribers[c].params))
                   /\ pending_subscriptions' =
                          insert(pending_subscriptions, request_id,
                                 [method |-> r.method, caller |-> c])
                   /\ subscribers' =
                          [d \in Callers |->
                              IF d = c
                              THEN [subscribers[d] EXCEPT !.status = "pending",
                                                          !.connection = connections,
                                                          !.request = request_id]
                              ELSE IF d \in displaced
                              THEN [subscribers[d] EXCEPT !.status = "NotConnected"]
                              ELSE subscribers[d]]
                   /\ request_id' = request_id + 1
                   /\ UNCHANGED <<connection_status, manager_task, pending_reconnect,
                                  active_subscriptions, server, connections>>
    /\ UNCHANGED <<program_vars, relayer_vars, library_vars>>

\* `ws.next()` yields an error or a close frame: `break`
ManagerReadError ==
    /\ InLoop
    /\ connections < MaxConnections
    /\ Breaks
    /\ UNCHANGED <<request_id, pending_subscriptions, pending_reconnect,
                   active_subscriptions, subscribers, socket, server, connections>>
    /\ UNCHANGED <<program_vars, relayer_vars, library_vars>>

\* a text frame that is not a JSON object: `serde_json::from_str(&text)?`
ManagerParseError ==
    /\ InLoop
    /\ Returns("MessageParseError")
    /\ UNCHANGED <<program_vars, relayer_vars, library_vars>>

\* the heartbeat arm, and the pong to a ping; ok: the send returned Ok
ManagerPing ==
    /\ InLoop
    /\ \E ok \in BOOLEAN :
          IF ~ok
          THEN Returns("ConnectionError")
          ELSE UNCHANGED websocket_vars
    /\ UNCHANGED <<program_vars, relayer_vars, library_vars>>

\* a response: `result` is what `as_u64` makes of the result field, None for
\* the `true` of an unsubscription
Response(id, error, result) == [id |-> id, error |-> error, result |-> result]

\* what the node can answer to a request, and the subscriptions it then serves
\* on the connection: a subscribe method gets a new subscription id or an
\* error, an unsubscribe method ends the subscription its parameter names or
\* gets an error
Answers(req) ==
    IF req.method \in {"slotSubscribe", "programSubscribe"}
    THEN {[response |-> Response(req.id, TRUE, None),
           subscriptions |-> server.subscriptions]}
         \cup {[response |-> Response(req.id, FALSE, Some(s)),
                subscriptions |->
                    insert(server.subscriptions, s,
                           IF req.method = "slotSubscribe" THEN "Slot" ELSE "Program")] :
               s \in SubscriptionIds \ DOMAIN server.subscriptions}
    ELSE IF req.params[1] \in DOMAIN server.subscriptions
    THEN {[response |-> Response(req.id, FALSE, None),
           subscriptions |-> remove(server.subscriptions, req.params[1])]}
    ELSE {[response |-> Response(req.id, TRUE, None),
           subscriptions |-> server.subscriptions]}

\* a text frame with an id: the node answers request i of the connection.
\* pending_unsubscriptions is never written, so the id is looked up in
\* pending_subscriptions alone
ManagerResponse(i) ==
    /\ InLoop
    /\ i \in DOMAIN socket \ server.answered
    /\ \E a \in Answers(socket[i].req) :
          LET r_id == a.response.id IN
          /\ server' = [server EXCEPT !.subscriptions = a.subscriptions,
                                      !.answered = @ \cup {i}]
          /\ IF r_id \notin DOMAIN pending_subscriptions
             THEN UNCHANGED <<pending_subscriptions, active_subscriptions, subscribers>>
             ELSE LET pending == pending_subscriptions[r_id] IN
                  /\ pending_subscriptions' = remove(pending_subscriptions, r_id)
                  /\ IF a.response.error \/ is_none(a.response.result)
                     THEN /\ subscribers' =
                                 [subscribers EXCEPT
                                     ![pending.caller].status = "SubscriptionFailed"]
                          /\ UNCHANGED active_subscriptions
                     ELSE /\ subscribers' =
                                 [subscribers EXCEPT
                                     ![pending.caller] =
                                         [@ EXCEPT !.status = "Ok",
                                                   !.subscription_id = a.response.result.val,
                                                   !.receiver = "open"]]
                          /\ active_subscriptions' =
                                 insert(active_subscriptions, a.response.result.val,
                                        [method |-> pending.method,
                                         caller |-> pending.caller])
    /\ UNCHANGED <<connection_status, manager_task, request_id, pending_reconnect,
                   socket, connections>>
    /\ UNCHANGED <<program_vars, relayer_vars, library_vars>>

\* `notification_sender.send(result)`: the result joins what the caller's
\* stream yields
notification_sender_send_to_every_stream(subs, c, s_id, result) ==
    [d \in DOMAIN subs |->
        IF subs[d].receiver = "open"
        THEN [subs[d] EXCEPT !.received =
                                 Append(@, [subscription |-> s_id, result |-> result])]
        ELSE subs[d]]

notification_sender_send(subs, c, s_id, result) ==
    [subs EXCEPT ![c].received = Append(@, [subscription |-> s_id, result |-> result])]

\* a text frame without an id: the node notifies of subscription s_id, which
\* it serves on this connection; ok: the send of the unsubscribe returned Ok
ManagerNotification(s_id) ==
    /\ InLoop
    /\ s_id \in DOMAIN server.subscriptions
    /\ server.notified < MaxNotifications
    /\ LET method == NotificationMethod(server.subscriptions[s_id])
           result == server.notified + 1
           known == s_id \in DOMAIN active_subscriptions
           open == known /\ subscribers[active_subscriptions[s_id].caller].receiver = "open"
       IN  IF open
           THEN /\ subscribers' =
                       notification_sender_send(
                           subscribers, active_subscriptions[s_id].caller, s_id, result)
                /\ server' = [server EXCEPT !.notified = result]
                /\ UNCHANGED <<connection_status, manager_task, request_id,
                               pending_subscriptions, pending_reconnect,
                               active_subscriptions, socket, connections>>
           ELSE /\ request_id <= MaxRequestId
                /\ \E ok \in BOOLEAN :
                      IF ~ok
                      THEN Returns("ConnectionError")
                      ELSE /\ active_subscriptions' = remove(active_subscriptions, s_id)
                           /\ socket' =
                                  Append(socket,
                                         Sent(build_unsubscribe_request(
                                                  notification_into_unsub_method(method),
                                                  request_id),
                                              "unsubscribe", s_id,
                                              server.subscriptions[s_id]))
                           /\ request_id' = request_id + 1
                           /\ server' = [server EXCEPT !.notified = result]
                           /\ UNCHANGED <<connection_status, manager_task,
                                          pending_subscriptions, pending_reconnect,
                                          subscribers, connections>>
    /\ UNCHANGED <<program_vars, relayer_vars, library_vars>>

InitWebsocket ==
    /\ Unallocated
    /\ NotStarted
    /\ NotCalled
    /\ connection_status = "Disconnected"
    /\ manager_task = [pc |-> "connect", result |-> "Pending"]
    /\ request_id = 1
    /\ pending_subscriptions = <<>>
    /\ pending_reconnect = FALSE
    /\ active_subscriptions = <<>>
    /\ subscribers = [c \in Callers |-> Idle]
    /\ socket = <<>>
    /\ server = [subscriptions |-> <<>>, answered |-> {}, notified |-> 0]
    /\ connections = 0

NextWebsocket ==
    \/ \E c \in Callers, params \in SubscribeParams : Subscribe(c, params)
    \/ \E c \in Callers : DropStream(c)
    \/ Connect
    \/ ManagerReconnect
    \/ \E subscription_id \in SubscriptionIds : ManagerUnsubscribe(subscription_id)
    \/ \E c \in Callers : ManagerSubscribe(c)
    \/ ManagerReadError
    \/ ManagerParseError
    \/ ManagerPing
    \/ \E i \in 1..MaxRequestId : ManagerResponse(i)
    \/ \E s_id \in SubscriptionIds : ManagerNotification(s_id)

SpecWebsocket == InitWebsocket /\ [][NextWebsocket]_vars

\* ------------------------------------------- the relayer's claims, continued

\* the transactions signed in the cycle that carry an Update for market; a
\* signature is the k-th one made in the cycle
Carrying(market) == {k \in DOMAIN built : market \in MarketsOf(built[k])}

\* the distinct signatures submitted so far that carry an Update for market:
\* the ones that can land, late or not, and the cluster executes a signature
\* once
Landable(market) == {sent[e].chunk : e \in {d \in DOMAIN sent : market \in MarketsOf(sent[d].tx)}}

\* C38: within one publish cycle each due market's Update can be executed at
\* most once, however submissions and Timeouts interleave: one transaction is
\* signed per chunk and none inside the retry loop, every submission of a chunk
\* carries that transaction, a transaction has one Update per market, and the
\* cycle's transactions share no market, so the submissions that carry a
\* market's Update all carry one signature.
C38_ExecutedAtMostOnce ==
    /\ Len(built) = chunk
    /\ \A e \in DOMAIN sent :
          /\ sent[e].chunk \in DOMAIN built
          /\ sent[e].tx = built[sent[e].chunk]
    /\ \A k \in DOMAIN built :
          \A i, j \in DOMAIN built[k] :
              built[k][i].market = built[k][j].market => i = j
    /\ \A i \in DOMAIN markets_with_instructions :
          /\ Cardinality(Carrying(markets_with_instructions[i].market)) <= 1
          /\ Cardinality(Landable(markets_with_instructions[i].market)) <= 1

\* a cycle of two chunks is over: the first was submitted twice and timed out
\* both times, the second timed out and then succeeded; each of the 11 due
\* markets was submitted under one signature
C38_Witness ==
    /\ CycleOver
    /\ Len(markets_with_instructions) = 11
    /\ Len(sent) = 4
    /\ <<sent[1].result, sent[2].result, sent[3].result, sent[4].result>>
           = <<"Timeout", "Timeout", "Timeout", "Success">>
    /\ <<sent[1].chunk, sent[2].chunk, sent[3].chunk, sent[4].chunk>> = <<1, 1, 2, 2>>
    /\ \A i \in DOMAIN markets_with_instructions :
          Cardinality(Landable(markets_with_instructions[i].market)) = 1

\* ------------------------------------------- the websocket manager's claims

\* C32: within one connection every request the manager sends, subscribe or
\* unsubscribe, carries an id greater than the id of every request sent before
\* it on that connection, and the first request of a connection carries id 1.
C32_RequestIdsIncrease ==
    /\ \A i, j \in DOMAIN socket : i < j => socket[i].req.id < socket[j].req.id
    /\ socket # <<>> => socket[1].req.id = 1

\* the step handles a notification: only that arm counts them
Notified == server'.notified = server.notified + 1

\* the last request sent on the connection
LastSent == socket'[Len(socket')]

\* C33: on a notification of subscription s, if s is active and its receiver is
\* open the result is appended to what that receiver yields, after the results
\* it got before, and nothing else changes for any caller; if the receiver is
\* closed the entry for s is deleted and an unsubscribe is sent; if s is not
\* active an unsubscribe is sent; in the last two cases no receiver gets the
\* result.
C33_NotificationDelivery ==
    [][Notified =>
          \E s \in DOMAIN server.subscriptions :
              LET known == s \in DOMAIN active_subscriptions
                  c == active_subscriptions[s].caller
              IN  IF known /\ subscribers[c].receiver = "open"
                  THEN /\ subscribers[c].subscription_id = s
                       /\ subscribers' =
                              [subscribers EXCEPT
                                  ![c].received =
                                      Append(@, [subscription |-> s,
                                                 result |-> server'.notified])]
                       /\ \A k \in DOMAIN subscribers[c].received :
                             /\ subscribers[c].received[k].subscription = s
                             /\ subscribers[c].received[k].result < server'.notified
                       /\ UNCHANGED <<active_subscriptions, socket>>
                  ELSE /\ subscribers' = subscribers
                       /\ s \notin DOMAIN active_subscriptions'
                       /\ \A t \in DOMAIN active_subscriptions \ {s} :
                             /\ t \in DOMAIN active_subscriptions'
                             /\ active_subscriptions'[t] = active_subscriptions[t]
                       /\ Len(socket') = Len(socket) + 1
                       /\ LastSent.op = "unsubscribe"
                       /\ LastSent.subscription_id = s
                       /\ LastSent.req.method
                              = UnsubscribeMethod(server.subscriptions[s])
    ]_vars

\* both callers hold a subscription: one has got a notification of its own,
\* the other has dropped its stream and the notification that came for it was
\* answered with an unsubscribe
C33_Witness ==
    \E c, d \in Callers :
        /\ c # d
        /\ subscribers[c].status = "Ok"
        /\ subscribers[d].status = "Ok"
        /\ subscribers[c].receiver = "open"
        /\ subscribers[d].receiver = "closed"
        /\ Len(subscribers[c].received) = 1
        /\ subscribers[d].received = <<>>
        /\ subscribers[c].subscription_id \in DOMAIN active_subscriptions
        /\ subscribers[d].subscription_id \notin DOMAIN active_subscriptions
        /\ \E i \in DOMAIN socket :
              /\ socket[i].op = "unsubscribe"
              /\ socket[i].subscription_id = subscribers[d].subscription_id

\* C34: when a send fails, a text frame cannot be parsed or the socket read
\* returns an error, the manager task leaves its inner loop for the head of
\* the outer loop with the status Reconnecting; it does not return.
C34_ErrorsReconnect ==
    [][(InLoop /\ manager_task'.pc # "select") =>
          /\ manager_task'.pc = "connect"
          /\ connection_status' = "Reconnecting"
    ]_vars

\* caller c's subscribe request was sent on a connection that has been left,
\* and is unconfirmed
LeftPending(c) ==
    /\ subscribers[c].status = "pending"
    /\ subscribers[c].connection < connections \/ manager_task.pc = "connect"

\* a new subscribe request takes the request id of c's entry
Displaced(c) ==
    /\ request_id = subscribers[c].request
    /\ \E d \in Callers \ {c} :
          /\ subscribers[d].status = "sent"
          /\ subscribers'[d].status = "pending"
          /\ subscribers'[d].request = subscribers[c].request

\* once a new connection is up, no request on it is a subscribe under the
\* request id of c
NotResent(c) ==
    subscribers[c].connection < connections =>
        \A i \in DOMAIN socket :
            socket[i].op = "subscribe" => socket[i].req.id # subscribers[c].request

\* C35: a subscribe request that is unconfirmed when the connection is replaced
\* is not sent again on the new connection, and its caller stays blocked, with
\* neither a subscription nor an error, unless a new request that takes the
\* same request id displaces its pending entry.
C35_BlockedUnlessDisplaced ==
    [][\A c \in Callers :
          LeftPending(c) =>
              /\ NotResent(c)
              /\ subscribers'[c].status # "pending" =>
                    (Displaced(c) /\ subscribers'[c].status = "NotConnected")
    ]_vars

\* C35 as the code has it: the caller is also released, with NotConnected, when
\* the manager task returns and drops pending_subscriptions
C35_BlockedUnlessDisplacedOrEnded ==
    [][\A c \in Callers :
          LeftPending(c) =>
              /\ NotResent(c)
              /\ subscribers'[c] = subscribers[c]
                 \/ /\ subscribers'[c] = [subscribers[c] EXCEPT !.status = "NotConnected"]
                    /\ Displaced(c) \/ manager_task'.pc = "ended"
    ]_vars

\* the second connection is up and nothing has been sent on it; a caller still
\* waits for the subscription it asked for on the first
C35_Witness ==
    /\ connections = 2
    /\ InLoop
    /\ socket = <<>>
    /\ \E c \in Callers :
          /\ subscribers[c].status = "pending"
          /\ subscribers[c].connection = 1
          /\ pending_subscriptions[subscribers[c].request].caller = c

\* C39: every unsubscribe request the manager sends, for a caller's
\* unsubscribe(s) or for a notification of a subscription s that is unknown or
\* whose receiver is closed, uses the unsubscribe method of the subscription's
\* kind and carries s as its parameter.
C39_UnsubscribeNamesSubscription ==
    \A i \in DOMAIN socket :
        socket[i].op = "unsubscribe" =>
            /\ socket[i].req.method = UnsubscribeMethod(socket[i].params)
            /\ socket[i].req.params = <<socket[i].subscription_id>>

====
